---- MODULE Spec2Model ----
(***************************************************************************)
(* The parallel build scheduler of mk (src/mk.go): mkNode, mkNodePrereqs,  *)
(* the subprocess slots, and the part of main that runs the build.         *)
(*                                                                         *)
(* One goroutine per mkNode call.  A call that has not yet taken the       *)
(* node's mutex is an entry of `spawned`; the call that claimed node n     *)
(* (status Started) is the worker of n and its position and locals are     *)
(* pc[n], required[n], ...  At most one worker per node exists at a time,  *)
(* because the claim is made under the node's mutex.                       *)
(***************************************************************************)
EXTENDS Integers, Sequences, FiniteSets, TLC

\* ------------------------------------------------------------------ bounds

\* File modification times range over 1..MaxTime; 0 is time.Unix(0, 0).
MaxTime == 2

\* subprocsAllowed (flag -p) ranges over 1..MaxProcs.
MaxProcs == 2

\* ------------------------------------------------------------ node status

nodeStatusReady == "Ready"

nodeStatusStarted == "Started"

nodeStatusNop == "NoOp"

nodeStatusDone == "Done"

nodeStatusFailed == "Failed"

\* ------------------------------------------------------------------ graphs

\* The root node of buildgraph(rs, ""): the dummy virtual rule of main.
Root == ""

Nodes == {Root, "a", "b", "p"}

None == "none"

\* Runes of the terminal input in interactive mode; Eof stands for the read
\* error at the end of input, NoRune for nothing read yet.
Whitespace == {" ", "\n", "\t", "\r"}

Runes == Whitespace \cup {"y", "n"}

Eof == "EOF"

NoRune == ""

Absent == [exists |-> FALSE, time |-> 0]

FileStates == {Absent} \cup {[exists |-> TRUE, time |-> tm] : tm \in 1..MaxTime}

\* Workspaces in which the files in S exist or not, with any times.
AnyFiles(S) == {f \in [Nodes -> FileStates] : \A n \in Nodes \ S : f[n] = Absent}

\* The workspace in which exactly the files in S exist, all of the same age.
NewFiles(S) == [n \in Nodes |-> IF n \in S THEN [exists |-> TRUE, time |-> MaxTime]
                                ELSE Absent]

\* The graphs buildgraph produces for a few mkfiles, each with the
\* workspaces it is run in.  prereqs[n] lists the non-nil tails of n's edges
\* in order; ruled is the set of nodes with at least one edge (applyrules
\* makes none for a rule without recipe and prerequisites); recipe the nodes
\* whose rule has a non-empty recipe; virtual, exclusive and nonstop the
\* targets whose rule has attribute V, X and E; the targets named on the
\* command line are the root's prerequisites.
\*   diamond:  a: p   b: p   p:       (mk a b)    p was removed
\*   twice:    a: p   p:              (mk a a)
\*   fan:      a:X:   b:   p:         (mk a b p)  a exclusive, nothing built yet
\*   source:   a: p   b: p            (mk a b)    p has no rule, a is built
\*   phony:    a:V: p   p:E:          (mk a)      a virtual, p non-stop
\*   empty:    a: p   p:V:            (mk a)      p virtual, its rule has neither
\*                                               recipe nor prerequisites
Mkfiles ==
  { [prereqs |-> [n \in Nodes |-> CASE n = Root -> <<"a", "b">>
                                    [] n = "a" -> <<"p">>
                                    [] n = "b" -> <<"p">>
                                    [] OTHER -> <<>>],
     ruled |-> {Root, "a", "b", "p"}, recipe |-> {"a", "b", "p"},
     virtual |-> {Root}, exclusive |-> {}, nonstop |-> {},
     workspaces |-> {NewFiles({"a", "b"})}],
    [prereqs |-> [n \in Nodes |-> CASE n = Root -> <<"a", "a">>
                                    [] n = "a" -> <<"p">>
                                    [] OTHER -> <<>>],
     ruled |-> {Root, "a", "p"}, recipe |-> {"a", "p"},
     virtual |-> {Root}, exclusive |-> {}, nonstop |-> {},
     workspaces |-> AnyFiles({"a", "p"})],
    [prereqs |-> [n \in Nodes |-> CASE n = Root -> <<"a", "b", "p">>
                                    [] OTHER -> <<>>],
     ruled |-> {Root, "a", "b", "p"}, recipe |-> {"a", "b", "p"},
     virtual |-> {Root}, exclusive |-> {"a"}, nonstop |-> {},
     workspaces |-> {NewFiles({})}],
    [prereqs |-> [n \in Nodes |-> CASE n = Root -> <<"a", "b">>
                                    [] n = "a" -> <<"p">>
                                    [] n = "b" -> <<"p">>
                                    [] OTHER -> <<>>],
     ruled |-> {Root, "a", "b"}, recipe |-> {"a", "b"},
     virtual |-> {Root}, exclusive |-> {}, nonstop |-> {},
     workspaces |-> {NewFiles({"a", "p"}), NewFiles({"a"})}],
    [prereqs |-> [n \in Nodes |-> CASE n = Root -> <<"a">>
                                    [] n = "a" -> <<"p">>
                                    [] OTHER -> <<>>],
     ruled |-> {Root, "a", "p"}, recipe |-> {"a", "p"},
     virtual |-> {Root, "a"}, exclusive |-> {}, nonstop |-> {"p"},
     workspaces |-> AnyFiles({"a", "p"})],
    [prereqs |-> [n \in Nodes |-> CASE n = Root -> <<"a">>
                                    [] n = "a" -> <<"p">>
                                    [] OTHER -> <<>>],
     ruled |-> {Root, "a"}, recipe |-> {"a"},
     virtual |-> {Root, "p"}, exclusive |-> {}, nonstop |-> {},
     workspaces |-> {NewFiles({}), NewFiles({"p"})}] }

\* The mkfile  a: p b   b: p   p:  (mk a), every rule with a recipe, in the
\* workspace where only b has been built.
Chain ==
  [prereqs |-> [n \in Nodes |-> CASE n = Root -> <<"a">>
                                   [] n = "a" -> <<"p", "b">>
                                   [] n = "b" -> <<"p">>
                                   [] OTHER -> <<>>],
   ruled |-> {Root, "a", "b", "p"}, recipe |-> {"a", "b", "p"},
   virtual |-> {Root}, exclusive |-> {}, nonstop |-> {},
   workspaces |-> {[NewFiles({}) EXCEPT !["b"] = [exists |-> TRUE, time |-> 1]]}]

VARIABLES
  graph,            \* the graph and rules built by buildgraph (read-only)
  dryrun,           \* flag -n
  rebuildall,       \* flag -a
  rebuildtargets,   \* targets forced by flag -r
  subprocsAllowed,  \* flag -p
  reliable,         \* the workspace's recipes always succeed and write their target
  run,              \* 1: first run of mk in the workspace, 2: the run after it
  rune,             \* interactive mode: the last rune read from the terminal
  rs,               \* rs.rules: the rules of the mkfile, then main's root rule
  existing,         \* the names os.Stat finds while the graph is built
  gnodes,           \* g.nodes: the nodes buildgraph has created, by name
  buildpc,          \* position of buildgraph
  chosen,           \* mkNode's local `e` per node: the edge whose rule it uses
  rulepeak,         \* history: per rule, the highest value its entry of rulecnt
                    \* had during applyrules
  rsvars,           \* rs.vars: the variables of the rule set, by name
  stmt,             \* the tokens of the assignment executed last (its tokenBuf)
  call,             \* the last call of expand or expandRecipeSigils: its
                    \* function, input and result
  textpc,           \* position of the code that works on the mkfile's text
  frames,           \* the calls of parseInto in progress, innermost last, each
                    \* with its lexer and its parser
  texts,            \* the files an mkfile can include: name -> content
  fs,               \* the file system: fs[n] = [exists, time] as os.Stat sees it
  status,           \* node.status
  t,                \* node.t
  exists,           \* node.exists
  listeners,        \* node.listeners: the channels to notify, by owning worker
  mutex,            \* node.mutex is locked
  spawned,          \* mkNode calls that have not yet locked the node's mutex
  pc,               \* position of the worker of each node
  required,         \* mkNode's argument `required`
  pass,             \* 1: first call of mkNodePrereqs, 2: second call
  idx,              \* loop index i in mkNodePrereqs / in the deferred notify loop
  pending,          \* mkNodePrereqs' local `pending`
  prereqstat,       \* mkNodePrereqs' local `status` (its return value)
  uptodate,         \* mkNode's local `uptodate`
  finalstatus,      \* mkNode's local `finalstatus`
  subprocsRunning,  \* slots in use
  condL,            \* holder of subprocsRunningCond.L across steps, or None
  exclusiveSubproc, \* holder of the exclusiveSubproc mutex, or None
  stolen,           \* reserveExclusiveSubproc's local stolen_subprocs
  mainpc,           \* "dry": main waits for the dry pass of interactive mode;
                    \* "prompt": main reads the answer; "mkNode": main waits
                    \* for mkNode(root); "exit": the process has ended
  exitCode,         \* the process's exit code once mainpc = "exit"
  ndorecipe,        \* history: number of dorecipe calls per node
  nsubprocess,      \* history: number of recipe interpreters launched per node
  reqpass           \* history: the nodes on which a mkNode call with required =
                    \* true has run to its deferred function

textVars == <<rsvars, stmt, call, textpc, frames, texts>>

buildVars == <<rs, existing, gnodes, buildpc, chosen, rulepeak, textVars>>

graphVars ==
  <<graph, dryrun, rebuildall, rebuildtargets, subprocsAllowed, reliable, run, rune, buildVars>>

nodeVars == <<status, t, exists, listeners, mutex>>

localVars == <<required, pass, idx, pending, prereqstat, uptodate, finalstatus>>

slotVars == <<subprocsRunning, condL, exclusiveSubproc, stolen>>

mainVars == <<mainpc, exitCode>>

histVars == <<ndorecipe, nsubprocess, reqpass>>

vars == <<graphVars, fs, nodeVars, spawned, pc, localVars, slotVars, mainVars, histVars>>

\* ---------------------------------------------------------------- helpers

Terminal == {nodeStatusDone, nodeStatusNop, nodeStatusFailed}

Elems(s) == {s[k] : k \in 1..Len(s)}

\* The names given on the command line: the root rule's prerequisites.
Targets(g) == Elems(g.prereqs[Root])

\* u.updateTimestamp(): the node's t and exists as os.Stat reports them.
StatTime(f) == IF f.exists THEN f.time ELSE 0

StatExists(f) == f.exists

\* The latest modification time in the file system; a file written now gets
\* a time no earlier than it.
Latest(f) ==
  LET ts == {f[n].time : n \in Nodes} \cup {1}
  IN  CHOOSE x \in ts : \A y \in ts : y <= x

\* mkNode line 182 and mkNodePrereqs line 146: the statuses from which a
\* node is (re)built.
ClaimableMutant(s) == s \in {nodeStatusReady, nodeStatusNop, nodeStatusDone}

ClaimableAgainMutant(s) == s \in {nodeStatusReady, nodeStatusNop, nodeStatusFailed}

Claimable(s) == s \in {nodeStatusReady, nodeStatusNop}

NeedsBuild(s) == s \in {nodeStatusReady, nodeStatusNop}

Subscribes(s) == NeedsBuild(s) \/ s = nodeStatusStarted

\* time.Time.Before as used on line 240.
BeforeMutant(x, y) == x <= y

Before(x, y) == x < y

\* mkNode line 240: does prerequisite q make a target with time ut stale?
PrereqStale(ut, q) == Before(ut, t[q]) \/ status[q] = nodeStatusDone

\* mkNode lines 233-249: `uptodate` for node n whose refreshed exists/time
\* are ex/ut and whose argument `required` is req.
Uptodate(n, ex, ut, req) ==
  IF n \notin graph.virtual
  THEN IF ~ex /\ req THEN FALSE
       ELSE IF ex \/ req
            THEN \A k \in 1..Len(graph.prereqs[n]) : ~PrereqStale(ut, graph.prereqs[n][k])
            ELSE IF req THEN FALSE ELSE TRUE
  ELSE FALSE

\* mkNode lines 251-254: forced rebuild.
ForcedMutant(n) == rebuildall

Forced(n) == n \in rebuildtargets \/ rebuildall

\* mkNode line 262: is the recipe executed?
RunsRecipe(n, upd, fin) ==
  ~upd /\ fin # nodeStatusFailed /\ n \in graph.recipe

\* mkNode lines 262-281: the worker's next position and finalstatus once the
\* prerequisites are dealt with.
DecidePc(n, upd, fin) == IF RunsRecipe(n, upd, fin) THEN "reserve" ELSE "finish"

DecideFinal(n, upd, fin) ==
  IF RunsRecipe(n, upd, fin) THEN fin
  ELSE IF fin # nodeStatusFailed THEN nodeStatusNop ELSE fin

\* The dryrun argument of the mkNode calls of the pass in progress: true in
\* the dry pass of interactive mode (main line 393), else flag -n (line 411).
Dry == dryrun \/ mainpc \in {"dry", "prompt"}

\* dorecipe (recipe.go lines 144-154): the number of interpreters a call
\* launches.
LaunchedMutant(dry) == 1

Launched(dry) == IF dry THEN 0 ELSE 1

\* reserveSubproc line 85: no free slot.
SlotFullMutant(running, allowed) == running > allowed

SlotFull(running, allowed) == running >= allowed

\* reserveExclusiveSubproc line 108: the exclusive recipe still has to wait.
MustStealMutant(st, allowed) == FALSE

MustSteal(st, allowed) == st < allowed

\* ------------------------------------------------------------------- Init

\* The state of a mk process when main calls mkNode on the root of a graph
\* that buildgraph has just built: every node is as newnode made it.
NewProcess ==
  /\ status = [n \in Nodes |-> nodeStatusReady]
  /\ t = [n \in Nodes |-> StatTime(fs[n])]
  /\ exists = [n \in Nodes |-> StatExists(fs[n])]
  /\ listeners = [n \in Nodes |-> <<>>]
  /\ mutex = [n \in Nodes |-> FALSE]
  /\ spawned = [c \in Nodes \X BOOLEAN |-> IF c = <<Root, TRUE>> THEN 1 ELSE 0]
  /\ pc = [n \in Nodes |-> "idle"]
  /\ required = [n \in Nodes |-> FALSE]
  /\ pass = [n \in Nodes |-> 1]
  /\ idx = [n \in Nodes |-> 1]
  /\ pending = [n \in Nodes |-> 0]
  /\ prereqstat = [n \in Nodes |-> nodeStatusDone]
  /\ uptodate = [n \in Nodes |-> TRUE]
  /\ finalstatus = [n \in Nodes |-> nodeStatusDone]
  /\ subprocsRunning = 0
  /\ condL = None
  /\ exclusiveSubproc = None
  /\ stolen = [n \in Nodes |-> 0]
  /\ exitCode = 0
  /\ ndorecipe = [n \in Nodes |-> 0]
  /\ nsubprocess = [n \in Nodes |-> 0]
  /\ reqpass = {}

\* The scheduler's specifications take the graph that buildgraph returned
\* from `graph`; buildgraph's own variables stay as they are here.
\* No text is being worked on.
NoCall == [fn |-> "none"]

TextIdle ==
  /\ rsvars = <<>>
  /\ stmt = <<>>
  /\ call = NoCall
  /\ textpc = "idle"
  /\ frames = <<>>
  /\ texts = <<>>

GraphGiven ==
  /\ TextIdle
  /\ rs = <<>>
  /\ existing = {}
  /\ gnodes = <<>>
  /\ buildpc = "done"
  /\ chosen = <<>>
  /\ rulepeak = <<>>

\* One run of mk with any flags, in a workspace whose recipes may fail or
\* leave their target unwritten.
Init ==
  /\ graph \in Mkfiles \cup {Chain}
  /\ dryrun \in BOOLEAN
  /\ rebuildall \in BOOLEAN
  /\ \E shallowrebuild \in BOOLEAN :
       rebuildtargets = IF shallowrebuild THEN Targets(graph) ELSE {}
  /\ subprocsAllowed \in 1..MaxProcs
  /\ reliable = FALSE
  /\ run = 1
  /\ rune = NoRune
  /\ fs \in graph.workspaces
  /\ mainpc = "mkNode"
  /\ NewProcess
  /\ GraphGiven

\* The process is alive.  While main reads the answer, goroutines left over
\* by the dry pass go on.
Running == mainpc \in {"dry", "prompt", "mkNode"}

\* ------------------------------------------------------------------ mkNode

\* mkNode lines 181-185: the call finds the node already being built, or
\* built, and returns.
MkNodeReturn(n, r) ==
  /\ Running
  /\ spawned[<<n, r>>] > 0
  /\ ~mutex[n]
  /\ ~Claimable(status[n])
  /\ spawned' = [spawned EXCEPT ![<<n, r>>] = @ - 1]
  /\ UNCHANGED <<graphVars, fs, nodeVars, pc, localVars, slotVars, mainVars, histVars>>

\* The field r of node n: newnode leaves it nil and nothing assigns it.
NodeRuleMutant(n) == n

NodeRule(n) == None

\* mkNode line 204: the node without edges is acceptable as it is.
NoRuleNeeded(n) == (NodeRule(n) # None /\ n \in graph.virtual) \/ exists[n]

\* mkNode lines 181-188 and 203-207: the call claims a node that has no edge
\* and that is not acceptable as it is: mkError ends the process with code 1.
MkNodeDontKnow(n, r) ==
  /\ Running
  /\ spawned[<<n, r>>] > 0
  /\ ~mutex[n]
  /\ Claimable(status[n])
  /\ n \notin graph.ruled
  /\ ~NoRuleNeeded(n)
  /\ spawned' = [spawned EXCEPT ![<<n, r>>] = @ - 1]
  /\ status' = [status EXCEPT ![n] = nodeStatusStarted]
  /\ mainpc' = "exit"
  /\ exitCode' = 1
  /\ UNCHANGED <<graphVars, fs, t, exists, listeners, mutex, pc, localVars, slotVars,
                 histVars>>

\* mkNode lines 181-188 and 203-210: the call claims a node that has no edge
\* and is acceptable as it is: finalstatus is NoOp and the deferred function
\* runs.
MkNodeNoRule(n, r) ==
  /\ Running
  /\ spawned[<<n, r>>] > 0
  /\ ~mutex[n]
  /\ Claimable(status[n])
  /\ n \notin graph.ruled
  /\ NoRuleNeeded(n)
  /\ spawned' = [spawned EXCEPT ![<<n, r>>] = @ - 1]
  /\ status' = [status EXCEPT ![n] = nodeStatusStarted]
  /\ required' = [required EXCEPT ![n] = r]
  /\ finalstatus' = [finalstatus EXCEPT ![n] = nodeStatusNop]
  /\ pc' = [pc EXCEPT ![n] = "finish"]
  /\ UNCHANGED <<graphVars, fs, t, exists, listeners, mutex, pass, idx, pending,
                 prereqstat, uptodate, slotVars, mainVars, histVars>>

\* mkNode lines 181-188, 191 and 212-231: the call claims the node and enters
\* the first mkNodePrereqs (lines 139-140), which returns at once when the
\* node has no prerequisite nodes.
MkNodeClaim(n, r) ==
  /\ Running
  /\ spawned[<<n, r>>] > 0
  /\ ~mutex[n]
  /\ Claimable(status[n])
  /\ n \in graph.ruled
  /\ spawned' = [spawned EXCEPT ![<<n, r>>] = @ - 1]
  /\ status' = [status EXCEPT ![n] = nodeStatusStarted]
  /\ required' = [required EXCEPT ![n] = r]
  /\ finalstatus' = [finalstatus EXCEPT ![n] = nodeStatusDone]
  /\ uptodate' = [uptodate EXCEPT ![n] = TRUE]
  /\ pass' = [pass EXCEPT ![n] = 1]
  /\ idx' = [idx EXCEPT ![n] = 1]
  /\ pending' = [pending EXCEPT ![n] = 0]
  /\ prereqstat' = [prereqstat EXCEPT ![n] = nodeStatusDone]
  /\ pc' = [pc EXCEPT ![n] = IF graph.prereqs[n] = <<>> THEN "check" ELSE "prereqs"]
  /\ UNCHANGED <<graphVars, fs, t, exists, listeners, mutex, slotVars, mainVars,
                 histVars>>

\* The `required` argument mkNodePrereqs passes on: prereqs_required of line
\* 230 in the first call, true in the second (line 258).
PrereqsRequired(n) ==
  IF pass[n] = 1 THEN required[n] /\ (n \in graph.virtual \/ ~exists[n]) ELSE TRUE

\* Where the worker of n continues when a mkNodePrereqs call returns:
\* the staleness check after the first, the recipe decision after the second.
AfterPrereqsPc(n) ==
  IF pass[n] = 1 THEN "check" ELSE DecidePc(n, uptodate[n], finalstatus[n])

AfterPrereqsFinal(n) ==
  IF pass[n] = 1 THEN finalstatus[n] ELSE DecideFinal(n, uptodate[n], finalstatus[n])

\* mkNodePrereqs lines 143-154: one iteration of the loop over the prereqs,
\* under the prerequisite's mutex.
Subscribe(n) ==
  /\ Running
  /\ pc[n] = "prereqs"
  /\ LET q == graph.prereqs[n][idx[n]]
         last == idx[n] = Len(graph.prereqs[n])
         sub == Subscribes(status[q])
         pend == IF sub THEN pending[n] + 1 ELSE pending[n]
     IN  /\ ~mutex[q]
         /\ spawned' = IF NeedsBuild(status[q])
                       THEN [spawned EXCEPT ![<<q, PrereqsRequired(n)>>] = @ + 1]
                       ELSE spawned
         /\ listeners' = IF sub THEN [listeners EXCEPT ![q] = Append(@, n)]
                         ELSE listeners
         /\ pending' = [pending EXCEPT ![n] = pend]
         /\ idx' = [idx EXCEPT ![n] = @ + 1]
         /\ pc' = [pc EXCEPT ![n] = IF ~last THEN "prereqs"
                                    ELSE IF pend > 0 THEN "wait"
                                    ELSE AfterPrereqsPc(n)]
         /\ finalstatus' = [finalstatus EXCEPT ![n] =
                              IF last /\ pend = 0 THEN AfterPrereqsFinal(n) ELSE @]
  /\ UNCHANGED <<graphVars, fs, status, t, exists, mutex, required, pass, prereqstat,
                 uptodate, slotVars, mainVars, histVars>>

\* mkNode lines 233-259: refresh the timestamp, decide staleness, and enter
\* the second mkNodePrereqs when the node is stale.
Check(n) ==
  /\ Running
  /\ pc[n] = "check"
  /\ LET virt == n \in graph.virtual
         ex == IF virt THEN exists[n] ELSE StatExists(fs[n])
         ut == IF virt THEN t[n] ELSE StatTime(fs[n])
         upd == Uptodate(n, ex, ut, required[n]) /\ ~Forced(n)
         second == ~upd /\ graph.prereqs[n] # <<>>
     IN  /\ exists' = [exists EXCEPT ![n] = ex]
         /\ t' = [t EXCEPT ![n] = ut]
         /\ uptodate' = [uptodate EXCEPT ![n] = upd]
         /\ pass' = [pass EXCEPT ![n] = IF second THEN 2 ELSE @]
         /\ idx' = [idx EXCEPT ![n] = IF second THEN 1 ELSE @]
         /\ pending' = [pending EXCEPT ![n] = 0]
         /\ prereqstat' = [prereqstat EXCEPT ![n] = IF second THEN nodeStatusDone ELSE @]
         /\ pc' = [pc EXCEPT ![n] = IF second THEN "prereqs"
                                    ELSE DecidePc(n, upd, finalstatus[n])]
         /\ finalstatus' = [finalstatus EXCEPT ![n] =
                              IF second THEN @ ELSE DecideFinal(n, upd, @)]
  /\ UNCHANGED <<graphVars, fs, status, listeners, mutex, spawned, required, slotVars,
                 mainVars, histVars>>

\* ------------------------------------------------------- subprocess slots

ReleasedSlotsMutant(allowed) == allowed

\* finishExclusiveSubproc line 116: the counter after an exclusive recipe.
ReleasedSlots(allowed) == 0

FreedSlotMutant(running) == IF running > 1 THEN running - 2 ELSE 0

\* finishSubproc line 95: the counter after a shared recipe.
FreedSlot(running) == running - 1

\* The workers blocked in subprocsRunningCond.Wait().
Waiters == {m \in Nodes : pc[m] = "condwait"}

\* Where a worker woken from Wait continues: a shared one re-tests the loop
\* of reserveSubproc, an exclusive one runs lines 110-111.
Woken(m) == IF m \in graph.exclusive THEN "woken" ELSE "reserve"

\* reserveSubproc lines 84-89, entered from mkNode line 266 or on waking up
\* in Wait: take a slot and start dorecipe (line 269), or wait.
ReserveSubproc(n) ==
  /\ Running
  /\ pc[n] = "reserve"
  /\ n \notin graph.exclusive
  /\ condL = None
  /\ IF SlotFull(subprocsRunning, subprocsAllowed)
     THEN /\ pc' = [pc EXCEPT ![n] = "condwait"]
          /\ UNCHANGED <<subprocsRunning, ndorecipe, nsubprocess>>
     ELSE /\ subprocsRunning' = subprocsRunning + 1
          /\ pc' = [pc EXCEPT ![n] = "recipe"]
          /\ ndorecipe' = [ndorecipe EXCEPT ![n] = @ + 1]
          /\ nsubprocess' = [nsubprocess EXCEPT ![n] = @ + Launched(Dry)]
  /\ UNCHANGED reqpass
  /\ UNCHANGED <<graphVars, fs, nodeVars, spawned, localVars, condL, exclusiveSubproc,
                 stolen, mainVars>>

\* reserveExclusiveSubproc lines 102-109, entered from mkNode line 264: lock
\* exclusiveSubproc and the condition's lock, steal the free slots, and
\* either wait for the rest or start dorecipe holding both locks.
ReserveExclusiveSubproc(n) ==
  /\ Running
  /\ pc[n] = "reserve"
  /\ n \in graph.exclusive
  /\ exclusiveSubproc = None
  /\ condL = None
  /\ exclusiveSubproc' = n
  /\ subprocsRunning' = subprocsAllowed
  /\ LET st == subprocsAllowed - subprocsRunning
     IN  /\ stolen' = [stolen EXCEPT ![n] = st]
         /\ IF MustSteal(st, subprocsAllowed)
            THEN /\ pc' = [pc EXCEPT ![n] = "condwait"]
                 /\ UNCHANGED <<condL, ndorecipe, nsubprocess>>
            ELSE /\ pc' = [pc EXCEPT ![n] = "recipe"]
                 /\ condL' = n
                 /\ ndorecipe' = [ndorecipe EXCEPT ![n] = @ + 1]
                 /\ nsubprocess' = [nsubprocess EXCEPT ![n] = @ + Launched(Dry)]
  /\ UNCHANGED reqpass
  /\ UNCHANGED <<graphVars, fs, nodeVars, spawned, localVars, mainVars>>

\* reserveExclusiveSubproc lines 108-112: woken in Wait, the exclusive
\* worker takes the lock again and steals what has been freed.
StealSubprocs(n) ==
  /\ Running
  /\ pc[n] = "woken"
  /\ condL = None
  /\ subprocsRunning' = subprocsAllowed
  /\ LET st == stolen[n] + (subprocsAllowed - subprocsRunning)
     IN  /\ stolen' = [stolen EXCEPT ![n] = st]
         /\ IF MustSteal(st, subprocsAllowed)
            THEN /\ pc' = [pc EXCEPT ![n] = "condwait"]
                 /\ UNCHANGED <<condL, ndorecipe, nsubprocess>>
            ELSE /\ pc' = [pc EXCEPT ![n] = "recipe"]
                 /\ condL' = n
                 /\ ndorecipe' = [ndorecipe EXCEPT ![n] = @ + 1]
                 /\ nsubprocess' = [nsubprocess EXCEPT ![n] = @ + Launched(Dry)]
  /\ UNCHANGED reqpass
  /\ UNCHANGED <<graphVars, fs, nodeVars, spawned, localVars, exclusiveSubproc,
                 mainVars>>

\* dorecipe (recipe.go lines 110-156) returns: in a dry run it has only
\* printed the recipe and returns true; otherwise the interpreter succeeded
\* or not, and wrote the target or not (always both in a workspace whose
\* recipes are reliable).
RecipeOutcomes ==
  IF Dry THEN {[ok |-> TRUE, touch |-> FALSE]}
  ELSE IF reliable THEN {[ok |-> TRUE, touch |-> TRUE]}
  ELSE [ok : BOOLEAN, touch : BOOLEAN]

\* The file system after the recipe of n: a written target exists with a
\* time tm no earlier than any file's.
Written(n, o, tm) ==
  IF o.touch THEN [fs EXCEPT ![n] = [exists |-> TRUE, time |-> tm]] ELSE fs

\* mkNode lines 269-277 for a shared recipe: dorecipe returns, finalstatus
\* and the timestamp are updated, and finishSubproc (lines 93-98) frees the
\* slot and Signals one waiter, if any.
Dorecipe(n) ==
  /\ Running
  /\ pc[n] = "recipe"
  /\ n \notin graph.exclusive
  /\ condL = None
  /\ \E o \in RecipeOutcomes : \E tm \in Latest(fs)..MaxTime :
       /\ fs' = Written(n, o, tm)
       /\ finalstatus' = [finalstatus EXCEPT ![n] = IF o.ok THEN @ ELSE nodeStatusFailed]
       /\ t' = [t EXCEPT ![n] = StatTime(fs'[n])]
       /\ exists' = [exists EXCEPT ![n] = StatExists(fs'[n])]
  /\ subprocsRunning' = FreedSlot(subprocsRunning)
  /\ IF Waiters = {}
     THEN pc' = [pc EXCEPT ![n] = "finish"]
     ELSE \E w \in Waiters : pc' = [pc EXCEPT ![n] = "finish", ![w] = Woken(w)]
  /\ UNCHANGED <<graphVars, status, listeners, mutex, spawned, required, pass, idx,
                 pending, prereqstat, uptodate, condL, exclusiveSubproc, stolen,
                 mainVars, histVars>>

\* mkNode lines 269-275 for an exclusive recipe: dorecipe returns, then
\* finishExclusiveSubproc (lines 115-120) resets the counter, wakes every
\* waiter and releases both locks.
DorecipeExclusive(n) ==
  /\ Running
  /\ pc[n] = "recipe"
  /\ n \in graph.exclusive
  /\ \E o \in RecipeOutcomes : \E tm \in Latest(fs)..MaxTime :
       /\ fs' = Written(n, o, tm)
       /\ finalstatus' = [finalstatus EXCEPT ![n] = IF o.ok THEN @ ELSE nodeStatusFailed]
       /\ t' = [t EXCEPT ![n] = StatTime(fs'[n])]
       /\ exists' = [exists EXCEPT ![n] = StatExists(fs'[n])]
  /\ subprocsRunning' = ReleasedSlots(subprocsAllowed)
  /\ pc' = [m \in Nodes |-> IF m = n THEN "finish"
                            ELSE IF m \in Waiters THEN Woken(m) ELSE pc[m]]
  /\ condL' = IF condL = n THEN None ELSE condL
  /\ exclusiveSubproc' = None
  /\ stolen' = [stolen EXCEPT ![n] = 0]
  /\ UNCHANGED <<graphVars, status, listeners, mutex, spawned, required, pass, idx,
                 pending, prereqstat, uptodate, mainVars, histVars>>

\* ------------------------------------------------------ deferred function

\* mkNode returns: its locals, and those of its mkNodePrereqs calls, are gone.
Returned(n) ==
  /\ required' = [required EXCEPT ![n] = FALSE]
  /\ pass' = [pass EXCEPT ![n] = 1]
  /\ idx' = [idx EXCEPT ![n] = 1]
  /\ uptodate' = [uptodate EXCEPT ![n] = TRUE]

\* mkNode lines 179 and 191-194: the call whose deferred function sets the
\* final status was made with this value of required.
PassedRequired(n) == IF required[n] THEN reqpass \cup {n} ELSE reqpass

\* mkNode lines 193-199 when nobody listens: lock, set the status, unlock.
FinishQuiet(n) ==
  /\ Running
  /\ pc[n] = "finish"
  /\ ~mutex[n]
  /\ listeners[n] = <<>>
  /\ status' = [status EXCEPT ![n] = finalstatus[n]]
  /\ pc' = [pc EXCEPT ![n] = "idle"]
  /\ Returned(n)
  /\ finalstatus' = [finalstatus EXCEPT ![n] = nodeStatusDone]
  /\ reqpass' = PassedRequired(n)
  /\ UNCHANGED <<graphVars, fs, t, exists, listeners, mutex, spawned, pending,
                 prereqstat, slotVars, mainVars, ndorecipe, nsubprocess>>

\* mkNode lines 193-194: lock the node's mutex and set the final status; the
\* sends to the listeners follow with the mutex held.
FinishLock(n) ==
  /\ Running
  /\ pc[n] = "finish"
  /\ ~mutex[n]
  /\ listeners[n] # <<>>
  /\ mutex' = [mutex EXCEPT ![n] = TRUE]
  /\ status' = [status EXCEPT ![n] = finalstatus[n]]
  /\ idx' = [idx EXCEPT ![n] = 1]
  /\ pc' = [pc EXCEPT ![n] = "notify"]
  /\ reqpass' = PassedRequired(n)
  /\ UNCHANGED <<graphVars, fs, t, exists, listeners, spawned, required, pass, pending,
                 prereqstat, uptodate, finalstatus, slotVars, mainVars, ndorecipe,
                 nsubprocess>>

\* mkNode lines 195-196 with mkNodePrereqs lines 158-165: the worker of n
\* sends its status on the unbuffered channel of listener m, which receives
\* it in its wait loop; after its last receive, mkNodePrereqs of m returns
\* (its result is dropped by both callers, lines 231 and 258).
Notify(n) ==
  /\ Running
  /\ pc[n] = "notify"
  /\ idx[n] < Len(listeners[n])
  /\ LET m == listeners[n][idx[n]]
         done == pending[m] = 1
     IN  /\ pc[m] = "wait"
         /\ pending' = [pending EXCEPT ![m] = @ - 1]
         /\ prereqstat' = [prereqstat EXCEPT ![m] =
                             IF done THEN nodeStatusDone
                             ELSE IF status[n] = nodeStatusFailed THEN nodeStatusFailed
                             ELSE @]
         /\ finalstatus' = [finalstatus EXCEPT ![m] = IF done THEN AfterPrereqsFinal(m) ELSE @]
         /\ pc' = [pc EXCEPT ![m] = IF done THEN AfterPrereqsPc(m) ELSE "wait"]
         /\ idx' = [idx EXCEPT ![n] = @ + 1]
  /\ UNCHANGED <<graphVars, fs, nodeVars, spawned, required, pass, uptodate,
                 slotVars, mainVars, histVars>>

\* mkNode lines 195-199 with mkNodePrereqs lines 158-165: the last send,
\* after which the listener list is cleared, the mutex released and mkNode
\* returns.
NotifyLast(n) ==
  /\ Running
  /\ pc[n] = "notify"
  /\ idx[n] = Len(listeners[n])
  /\ LET m == listeners[n][idx[n]]
         done == pending[m] = 1
     IN  /\ pc[m] = "wait"
         /\ pending' = [pending EXCEPT ![m] = @ - 1]
         /\ prereqstat' = [prereqstat EXCEPT ![m] =
                             IF done THEN nodeStatusDone
                             ELSE IF status[n] = nodeStatusFailed THEN nodeStatusFailed
                             ELSE @]
         /\ finalstatus' = [finalstatus EXCEPT ![m] = IF done THEN AfterPrereqsFinal(m) ELSE @,
                                               ![n] = nodeStatusDone]
         /\ pc' = [pc EXCEPT ![m] = IF done THEN AfterPrereqsPc(m) ELSE "wait",
                             ![n] = "idle"]
  /\ listeners' = [listeners EXCEPT ![n] = <<>>]
  /\ mutex' = [mutex EXCEPT ![n] = FALSE]
  /\ Returned(n)
  /\ UNCHANGED <<graphVars, fs, status, t, exists, spawned, slotVars, mainVars,
                 histVars>>

\* ------------------------------------------------------------------- main

\* main lines 411-412: mkNode(g, g.root, dryrun, true) has returned and main
\* returns, which ends the process with code 0.
MainReturn ==
  /\ mainpc = "mkNode"
  /\ pc[Root] = "idle"
  /\ status[Root] \in Terminal
  /\ mainpc' = "exit"
  /\ exitCode' = 0
  /\ UNCHANGED <<graphVars, fs, nodeVars, spawned, pc, localVars, slotVars, histVars>>

\* main lines 392-394 in interactive mode: mkNode(g, g.root, true, true) has
\* returned and "Proceed? " is printed.
Prompt ==
  /\ mainpc = "dry"
  /\ pc[Root] = "idle"
  /\ status[Root] \in Terminal
  /\ mainpc' = "prompt"
  /\ UNCHANGED <<graphVars, fs, nodeVars, spawned, pc, localVars, slotVars, exitCode,
                 histVars>>

\* main lines 396-401: a whitespace rune is read and skipped.
ReadSpace(c) ==
  /\ mainpc = "prompt"
  /\ c \in Whitespace
  /\ rune' = c
  /\ UNCHANGED buildVars
  /\ UNCHANGED <<graph, dryrun, rebuildall, rebuildtargets, subprocsAllowed, reliable,
                 run, fs, nodeVars, spawned, pc, localVars, slotVars, mainVars, histVars>>

\* main lines 396-407: the read fails, or the rune read is neither
\* whitespace nor 'y': main returns.
ReadOther(c) ==
  /\ mainpc = "prompt"
  /\ c \in (Runes \cup {Eof}) \ (Whitespace \cup {"y"})
  /\ rune' = c
  /\ mainpc' = "exit"
  /\ exitCode' = 0
  /\ UNCHANGED buildVars
  /\ UNCHANGED <<graph, dryrun, rebuildall, rebuildtargets, subprocsAllowed, reliable,
                 run, fs, nodeVars, spawned, pc, localVars, slotVars, histVars>>

\* main lines 396-411: 'y' is read; buildgraph makes a new graph and main
\* calls mkNode on its root.  What the dry pass left running works on the
\* old graph with dryrun true and is not followed further.
ReadYes ==
  /\ mainpc = "prompt"
  /\ rune' = "y"
  /\ mainpc' = "mkNode"
  /\ UNCHANGED buildVars
  /\ UNCHANGED <<graph, dryrun, rebuildall, rebuildtargets, subprocsAllowed, reliable,
                 run, fs>>
  /\ status' = [n \in Nodes |-> nodeStatusReady]
  /\ t' = [n \in Nodes |-> StatTime(fs[n])]
  /\ exists' = [n \in Nodes |-> StatExists(fs[n])]
  /\ listeners' = [n \in Nodes |-> <<>>]
  /\ mutex' = [n \in Nodes |-> FALSE]
  /\ spawned' = [c \in Nodes \X BOOLEAN |-> IF c = <<Root, TRUE>> THEN 1 ELSE 0]
  /\ pc' = [n \in Nodes |-> "idle"]
  /\ required' = [n \in Nodes |-> FALSE]
  /\ pass' = [n \in Nodes |-> 1]
  /\ idx' = [n \in Nodes |-> 1]
  /\ pending' = [n \in Nodes |-> 0]
  /\ prereqstat' = [n \in Nodes |-> nodeStatusDone]
  /\ uptodate' = [n \in Nodes |-> TRUE]
  /\ finalstatus' = [n \in Nodes |-> nodeStatusDone]
  /\ subprocsRunning' = 0
  /\ condL' = None
  /\ exclusiveSubproc' = None
  /\ stolen' = [n \in Nodes |-> 0]
  /\ exitCode' = 0
  /\ ndorecipe' = [n \in Nodes |-> 0]
  /\ nsubprocess' = [n \in Nodes |-> 0]
  /\ reqpass' = {}

\* mk is run again in the workspace the first run left, after that run ended
\* with exit code 0: a new process, a new graph.
Rerun ==
  /\ mainpc = "exit"
  /\ exitCode = 0
  /\ run = 1
  /\ run' = 2
  /\ mainpc' = "mkNode"
  /\ UNCHANGED buildVars
  /\ UNCHANGED <<graph, dryrun, rebuildall, rebuildtargets, subprocsAllowed, reliable, rune, fs>>
  /\ status' = [n \in Nodes |-> nodeStatusReady]
  /\ t' = [n \in Nodes |-> StatTime(fs[n])]
  /\ exists' = [n \in Nodes |-> StatExists(fs[n])]
  /\ listeners' = [n \in Nodes |-> <<>>]
  /\ mutex' = [n \in Nodes |-> FALSE]
  /\ spawned' = [c \in Nodes \X BOOLEAN |-> IF c = <<Root, TRUE>> THEN 1 ELSE 0]
  /\ pc' = [n \in Nodes |-> "idle"]
  /\ required' = [n \in Nodes |-> FALSE]
  /\ pass' = [n \in Nodes |-> 1]
  /\ idx' = [n \in Nodes |-> 1]
  /\ pending' = [n \in Nodes |-> 0]
  /\ prereqstat' = [n \in Nodes |-> nodeStatusDone]
  /\ uptodate' = [n \in Nodes |-> TRUE]
  /\ finalstatus' = [n \in Nodes |-> nodeStatusDone]
  /\ subprocsRunning' = 0
  /\ condL' = None
  /\ exclusiveSubproc' = None
  /\ stolen' = [n \in Nodes |-> 0]
  /\ exitCode' = 0
  /\ ndorecipe' = [n \in Nodes |-> 0]
  /\ nsubprocess' = [n \in Nodes |-> 0]
  /\ reqpass' = {}

Next ==
  \/ \E n \in Nodes : \E r \in BOOLEAN :
       \/ MkNodeReturn(n, r)
       \/ MkNodeDontKnow(n, r)
       \/ MkNodeNoRule(n, r)
       \/ MkNodeClaim(n, r)
  \/ \E n \in Nodes :
       \/ Subscribe(n)
       \/ Check(n)
       \/ ReserveSubproc(n)
       \/ ReserveExclusiveSubproc(n)
       \/ StealSubprocs(n)
       \/ Dorecipe(n)
       \/ DorecipeExclusive(n)
       \/ FinishQuiet(n)
       \/ FinishLock(n)
       \/ Notify(n)
       \/ NotifyLast(n)
  \/ MainReturn

Spec == Init /\ [][Next]_vars

\* Two runs of mk without -n, -r or -a, one after the other, in a workspace
\* whose recipes always succeed and write their target.
InitRerun ==
  /\ graph \in Mkfiles \cup {Chain}
  /\ dryrun = FALSE
  /\ rebuildall = FALSE
  /\ rebuildtargets = {}
  /\ subprocsAllowed \in 1..MaxProcs
  /\ reliable = TRUE
  /\ run = 1
  /\ rune = NoRune
  /\ fs \in graph.workspaces
  /\ mainpc = "mkNode"
  /\ NewProcess
  /\ GraphGiven

NextRerun == Next \/ Rerun

\* One run of mk -i, with or without -r.
InitInteractive ==
  /\ graph \in Mkfiles \cup {Chain}
  /\ dryrun = FALSE
  /\ rebuildall = FALSE
  /\ \E shallowrebuild \in BOOLEAN :
       rebuildtargets = IF shallowrebuild THEN Targets(graph) ELSE {}
  /\ subprocsAllowed \in 1..MaxProcs
  /\ reliable = FALSE
  /\ run = 1
  /\ rune = NoRune
  /\ fs \in graph.workspaces
  /\ mainpc = "dry"
  /\ NewProcess
  /\ GraphGiven

NextInteractive ==
  \/ Next
  \/ Prompt
  \/ \E c \in Runes \cup {Eof} : ReadSpace(c) \/ ReadOther(c)
  \/ ReadYes

SpecInteractive == InitInteractive /\ [][NextInteractive]_vars

SpecRerun == InitRerun /\ [][NextRerun]_vars

\* ====================================================== graph construction
\* buildgraph (src/recipe.go) and the rules it reads (src/rules.go).  A name
\* or a pattern is the sequence of its characters; a rule is
\* [targets, prereqs, recipe, shell, virtual] with targets and prereqs
\* sequences of names, `recipe` the recipe text ("" when the rule has none)
\* and `shell` the argv of attribute S.  Regex rules (attribute R) are not
\* modelled.

\* Go's s[a:b] and s[a] on a sequence of characters, offsets from 0.
Slice(s, a, b) == SubSeq(s, a + 1, b)

At(s, a) == s[a + 1]

\* strings.IndexAny(s, chars): offset of the first character of s that is
\* in chars, or -1.
IndexAny(s, chars) ==
  IF \E k \in 1..Len(s) : s[k] \in chars
  THEN (CHOOSE k \in 1..Len(s) : s[k] \in chars /\ \A m \in 1..(k - 1) : s[m] \notin chars) - 1
  ELSE -1

\* The pattern parseRule compiles for a target word: a word with a '%' is a
\* suffix pattern ^left(.*)right$ with left and right quoted, split at the
\* first '%'.
CompilePattern(targetstr) ==
  LET at == IndexAny(targetstr, {"%"})
  IN IF at >= 0
     THEN [isSuffix |-> TRUE, spat |-> targetstr,
           left |-> IF at > 0 THEN Slice(targetstr, 0, at) ELSE <<>>,
           right |-> IF at < Len(targetstr) - 1
                     THEN Slice(targetstr, at + 1, Len(targetstr)) ELSE <<>>]
     ELSE [isSuffix |-> FALSE, spat |-> targetstr, left |-> <<>>, right |-> <<>>]

\* r.isMeta as parseRule sets it: some target word has a '%'.
isMeta(r) == \E j \in 1..Len(r.targets) : CompilePattern(r.targets[j]).isSuffix

\* pattern.match: [nil |-> TRUE] for no match, else the submatches: none for
\* a plain pattern, the whole name and the stem for a suffix pattern.
NoMatch == [nil |-> TRUE, mat |-> <<>>]

match(p, target) ==
  IF p.isSuffix
  THEN LET n == Len(target)
           l == Len(p.left)
           r == Len(p.right)
       IN IF /\ n >= l + r
             /\ Slice(target, 0, l) = p.left
             /\ Slice(target, n - r, n) = p.right
          THEN [nil |-> FALSE, mat |-> <<target, Slice(target, l, n - r)>>]
          ELSE NoMatch
  ELSE IF target = p.spat THEN [nil |-> FALSE, mat |-> <<>>] ELSE NoMatch

\* expandSuffixes(input, stem), as its loop runs: `end` tells whether the
\* call returns, panics on a slice with its bounds out of order, or never
\* leaves the loop; `out` is the text returned.
RECURSIVE expandSuffixesFrom(_, _, _, _)
expandSuffixesFrom(input, stem, i, expanded) ==
  IF i >= Len(input) THEN [end |-> "return", out |-> expanded]
  ELSE
    LET j == IndexAny(Slice(input, i, Len(input)), {"\\", "%"})
    IN IF j < 0
       THEN [end |-> "return", out |-> expanded \o Slice(input, i, Len(input))]
       ELSE IF j < i THEN [end |-> "panic", out |-> expanded]
       ELSE
         LET c == At(input, j)
             copied == expanded \o Slice(input, i, j)
         IN IF c = "%"
            THEN expandSuffixesFrom(input, stem, j + 1, copied \o stem)
            ELSE IF j + 1 < Len(input) /\ At(input, j + 1) = "%"
                 THEN expandSuffixesFrom(input, stem, j + 2, copied \o <<"%">>)
                 ELSE [end |-> "hang", out |-> copied]

expandSuffixes(input, stem) == expandSuffixesFrom(input, stem, 0, <<>>)

\* maxRuleCnt of src/mk.go.
maxRuleCnt == 1

nodeFlagCycle == "Cycle"

nodeFlagReady == "Ready"

nodeFlagProbable == "Probable"

nodeFlagVacuous == "Vacuous"

\* The root target "" and the nil tail of an edge of a rule without
\* prerequisites.
RootName == <<>>

NilNode == <<"nil">>

\* rs.targetRules[target] after rs.add of the rules 1..k: the index of
\* every rule once per plain target word equal to target, in source order.
RECURSIVE targetRulesUpTo(_, _)
targetRulesUpTo(target, k) ==
  IF k = 0 THEN <<>>
  ELSE LET same == SelectSeq(rs[k].targets,
                             LAMBDA w : w = target /\ ~CompilePattern(w).isSuffix)
       IN targetRulesUpTo(target, k - 1) \o [i \in 1..Len(same) |-> k]

targetRules(target) == targetRulesUpTo(target, Len(rs))

\* g.newnode(name) with updateTimestamp: a node without edges, Probable when
\* its file exists or under -a.  st is [nodes, rulecnt, peak, panic]: g.nodes,
\* the slice rulecnt, per rule the highest value its counter has had, and
\* whether the call has panicked (nothing is done after a panic).
newnode(st, name) ==
  [st EXCEPT !.nodes = (name :> [prereqs |-> <<>>,
                                 exists |-> name \in existing,
                                 flags |-> IF name \in existing \/ rebuildall
                                           THEN {nodeFlagProbable} ELSE {}]) @@ @]

\* u.newedge(v, r) with the edge's stem.
newedge(st, u, v, k, stem) ==
  [st EXCEPT !.nodes[u].prereqs =
     Append(@, [v |-> v, r |-> k, stem |-> stem, togo |-> FALSE])]

\* u.newedge(applyrules(...), r): no edge is made when the call panicked.
edgeTo(st, u, v, k, stem) == IF st.panic THEN st ELSE newedge(st, u, v, k, stem)

\* A rule "that has no effect" is skipped.
noEffect(r) == r.recipe = "" /\ Len(r.prereqs) = 0

\* The guards on rulecnt in applyrules, for concrete rules and meta-rules.
concreteVisited(cnt) == cnt > maxRuleCnt

metaVisited(cnt) == cnt >= maxRuleCnt

\* The highest value of a counter once it has been raised to cnt.
Peak(peak, cnt) == IF cnt > peak THEN cnt ELSE peak

RECURSIVE applyrules(_, _), applyPrereqs(_, _, _, _, _), applyConcrete(_, _, _),
          applyMeta(_, _, _), applyTargets(_, _, _, _)

\* applyrules(rs, g, target, rulecnt): the graph and the counters after the
\* call; the node it returns is nodes[target].
applyrules(st, target) ==
  IF st.panic \/ target \in DOMAIN st.nodes THEN st
  ELSE applyMeta(applyConcrete(newnode(st, target), target, 1), target, 1)

\* The loop over r.prereqs from index i on, for rule k at node u.
applyPrereqs(st, u, k, stem, i) ==
  IF st.panic \/ i > Len(rs[k].prereqs) THEN st
  ELSE LET prereq == IF isMeta(rs[k]) THEN expandSuffixes(rs[k].prereqs[i], stem).out
                     ELSE rs[k].prereqs[i]
       IN applyPrereqs(edgeTo(applyrules(st, prereq), u, prereq, k, stem),
                       u, k, stem, i + 1)

\* The loop over rs.targetRules[target] from position ki on.
applyConcrete(st, target, ki) ==
  LET ks == targetRules(target)
  IN IF st.panic \/ ki > Len(ks) THEN st
     ELSE
       LET k == ks[ki]
       IN IF concreteVisited(st.rulecnt[k]) \/ isMeta(rs[k]) \/ noEffect(rs[k])
          THEN applyConcrete(st, target, ki + 1)
          ELSE
            LET st1 == [st EXCEPT !.nodes[target].flags = @ \cup {nodeFlagProbable},
                                  !.rulecnt[k] = @ + 1,
                                  !.peak[k] = Peak(@, st.rulecnt[k] + 1)]
                st2 == IF Len(rs[k].prereqs) = 0
                       THEN newedge(st1, target, NilNode, k, <<>>)
                       ELSE applyPrereqs(st1, target, k, <<>>, 1)
            IN applyConcrete([st2 EXCEPT !.rulecnt[k] = @ - 1], target, ki + 1)

\* The loop over rs.rules from index k on, looking for meta-rules.
applyMeta(st, target, k) ==
  IF st.panic \/ k > Len(rs) THEN st
  ELSE IF metaVisited(st.rulecnt[k]) \/ ~isMeta(rs[k]) \/ noEffect(rs[k])
       THEN applyMeta(st, target, k + 1)
       ELSE applyMeta(applyTargets(st, target, k, 1), target, k + 1)

\* The loop over the targets of meta-rule k from index j on.  stem = mat[1]
\* is an index out of range, a run-time panic, when mat has no element 1.
applyTargets(st, target, k, j) ==
  IF st.panic \/ j > Len(rs[k].targets) THEN st
  ELSE
    LET m == match(CompilePattern(rs[k].targets[j]), target)
    IN IF m.nil THEN applyTargets(st, target, k, j + 1)
       ELSE IF Len(m.mat) < 2 THEN [st EXCEPT !.panic = TRUE]
       ELSE
         LET stem == m.mat[2]
             st1 == [st EXCEPT !.rulecnt[k] = @ + 1,
                               !.peak[k] = Peak(@, st.rulecnt[k] + 1)]
             st2 == IF Len(rs[k].prereqs) = 0
                    THEN newedge(st1, target, NilNode, k, stem)
                    ELSE applyPrereqs(st1, target, k, stem, 1)
         IN applyTargets([st2 EXCEPT !.rulecnt[k] = @ - 1], target, k, j + 1)

\* The results of the passes over the graph: the nodes after the pass and
\* whether the pass ended the process with mkError.
Passed(nodes) == [nodes |-> nodes, fatal |-> FALSE]

Fatal(nodes) == [nodes |-> nodes, fatal |-> TRUE]

setFlag(flags, f) == flags \cup {f}

clearFlagMutant(flags, f) == flags

clearFlag(flags, f) == flags \ {f}

RECURSIVE cyclecheck(_, _), cyclecheckEdges(_, _, _)

\* g.cyclecheck(u).
cyclecheck(nodes, u) ==
  IF nodeFlagCycle \in nodes[u].flags /\ Len(nodes[u].prereqs) > 0
  THEN Fatal(nodes)
  ELSE LET below == cyclecheckEdges([nodes EXCEPT ![u].flags = setFlag(@, nodeFlagCycle)],
                                    u, 1)
       IN IF below.fatal THEN below
          ELSE Passed([below.nodes EXCEPT ![u].flags = clearFlag(@, nodeFlagCycle)])

\* Its loop over u.prereqs from index i on.
cyclecheckEdges(nodes, u, i) ==
  IF i > Len(nodes[u].prereqs) THEN Passed(nodes)
  ELSE LET v == nodes[u].prereqs[i].v
       IN IF v = NilNode THEN cyclecheckEdges(nodes, u, i + 1)
          ELSE LET below == cyclecheck(nodes, v)
               IN IF below.fatal THEN below
                  ELSE cyclecheckEdges(below.nodes, u, i + 1)

\* g.togo(u): the edges of u that are not marked togo, in order.
togo(nodes, u) ==
  [nodes EXCEPT ![u].prereqs = SelectSeq(@, LAMBDA e : ~e.togo)]

\* The second loop of vacuous: an edge stays marked only if every edge of
\* its rule at u is marked.
keepRules(nodes, u) ==
  LET es == nodes[u].prereqs
  IN [nodes EXCEPT ![u].prereqs =
        [j \in 1..Len(es) |->
           [es[j] EXCEPT !.togo = @ /\ ~\E i \in 1..Len(es) : ~es[i].togo /\ es[i].r = es[j].r]]]

prunableMutant(vac, r) == vac

\* The test under which vacuous marks an edge with a tail togo: the call on
\* the tail returned true and the edge's rule is a meta-rule.
prunable(vac, r) == vac /\ isMeta(r)

RECURSIVE vacuous(_, _), vacuousEdges(_, _, _, _)

\* g.vacuous(u): the nodes after the call and the value it returns.
vacuous(nodes, u) ==
  LET vac == nodeFlagProbable \notin nodes[u].flags
  IN IF nodeFlagReady \in nodes[u].flags THEN [nodes |-> nodes, vac |-> vac]
     ELSE
       LET marked == vacuousEdges([nodes EXCEPT ![u].flags = setFlag(@, nodeFlagReady)],
                                  u, 1, vac)
           pruned == togo(keepRules(marked.nodes, u), u)
       IN [nodes |-> IF marked.vac
                     THEN [pruned EXCEPT ![u].flags = setFlag(@, nodeFlagVacuous)]
                     ELSE pruned,
           vac |-> marked.vac]

\* Its first loop over u.prereqs from index i on.
vacuousEdges(nodes, u, i, vac) ==
  IF i > Len(nodes[u].prereqs) THEN [nodes |-> nodes, vac |-> vac]
  ELSE
    LET e == nodes[u].prereqs[i]
    IN IF e.v = NilNode THEN vacuousEdges(nodes, u, i + 1, FALSE)
       ELSE
         LET below == vacuous(nodes, e.v)
         IN IF prunable(below.vac, rs[e.r])
            THEN vacuousEdges([below.nodes EXCEPT ![u].prereqs[i].togo = TRUE], u, i + 1, vac)
            ELSE vacuousEdges(below.nodes, u, i + 1, FALSE)

equivRecipeMutant(r1, r2) == r1.recipe = r2.recipe

\* r1.equivRecipe(r2): the same recipe text and the same shell argv.
equivRecipe(r1, r2) == r1.recipe = r2.recipe /\ r1.shell = r2.shell

preferConcreteMutant(ler, er) == FALSE

\* The test under which ambiguous drops the later edge e in favour of le.
preferConcrete(ler, er) == ~isMeta(ler) /\ isMeta(er)

RECURSIVE ambiguous(_, _), ambiguousEdges(_, _, _, _, _)

\* g.ambiguous(u).
ambiguous(nodes, u) ==
  LET looped == ambiguousEdges(nodes, u, 1, 0, 0)
  IN IF looped.fatal THEN looped ELSE Passed(togo(looped.nodes, u))

\* Its loop over u.prereqs from index i on; le is the index of the edge the
\* code holds in `le`, 0 for nil.  The loop is fatal when a call below was,
\* or at its end when bad > 0.
ambiguousEdges(nodes, u, i, le, bad) ==
  IF i > Len(nodes[u].prereqs)
  THEN IF bad > 0 THEN Fatal(nodes) ELSE Passed(nodes)
  ELSE
    LET e == nodes[u].prereqs[i]
        below == IF e.v # NilNode THEN ambiguous(nodes, e.v) ELSE Passed(nodes)
        er == rs[e.r]
        ler == rs[nodes[u].prereqs[le].r]
    IN IF below.fatal THEN below
       ELSE IF er.recipe = "" THEN ambiguousEdges(below.nodes, u, i + 1, le, bad)
       ELSE IF le = 0 THEN ambiguousEdges(below.nodes, u, i + 1, i, bad)
       ELSE IF ~equivRecipe(ler, er) /\ isMeta(ler) /\ ~isMeta(er)
            THEN ambiguousEdges([below.nodes EXCEPT ![u].prereqs[le].togo = TRUE],
                                u, i + 1, i, bad)
       ELSE IF ~equivRecipe(ler, er) /\ preferConcrete(ler, er)
            THEN ambiguousEdges([below.nodes EXCEPT ![u].prereqs[i].togo = TRUE],
                                u, i + 1, le, bad)
       ELSE IF ~equivRecipe(ler, er)
            THEN ambiguousEdges(below.nodes, u, i + 1, le, 1)
       ELSE ambiguousEdges(below.nodes, u, i + 1, le, bad)

\* The edge mkNode uses for u (its local `e`): the last edge of u whose rule
\* is not nil, and every edge has a rule; 0 when u has no edges.
recipeEdge(nodes, u) == Len(nodes[u].prereqs)

\* ------------------------------------------------- mkfiles as rule lists

\* A mkfile has 1..MaxRules rules.
MaxRules == 3

NewRule(targets, prereqs, recipe, shell) ==
  [targets |-> targets, prereqs |-> prereqs, recipe |-> recipe, shell |-> shell,
   virtual |-> FALSE]

\* The rules mkfiles are made of:
\*   t: b  (R1)      b: t  (R1)      t: c  (R2)      t:S rc: c  (R1)
\*   t b: c          %: %.x  (R2)    %:  (R1)        t:  (R1)
RulePool ==
  { NewRule(<< <<"t">> >>, << <<"b">> >>, "R1", <<>>),
    NewRule(<< <<"b">> >>, << <<"t">> >>, "R1", <<>>),
    NewRule(<< <<"t">> >>, << <<"c">> >>, "R2", <<>>),
    NewRule(<< <<"t">> >>, << <<"c">> >>, "R1", <<"rc">>),
    NewRule(<< <<"t">>, <<"b">> >>, << <<"c">> >>, "", <<>>),
    NewRule(<< <<"%">> >>, << <<"%", ".", "x">> >>, "R2", <<>>),
    NewRule(<< <<"%">> >>, <<>>, "R1", <<>>),
    NewRule(<< <<"t">> >>, <<>>, "R1", <<>>) }

\* The mkfiles: lists of 1..MaxRules different rules of the pool.
RuleLists ==
  {s \in UNION {[1..n -> RulePool] : n \in 1..MaxRules} :
     \A i, j \in 1..Len(s) : i # j => s[i] # s[j]}

\* The targets on the command line.
Args == { << <<"t">> >>, << <<"t">>, <<"b">> >> }

\* The files of the workspace before mk runs.
Workspaces == { {}, {<<"t", ".", "x">>} }

\* The dummy virtual rule main adds for the root.
RootRule(targets) ==
  [targets |-> <<RootName>>, prereqs |-> targets, recipe |-> "", shell |-> <<>>,
   virtual |-> TRUE]

\* The names of the nodes u has edges to.
Tails(nodes, u) ==
  {nodes[u].prereqs[i].v : i \in 1..Len(nodes[u].prereqs)} \ {NilNode}

\* main up to its call of buildgraph: the rules are parsed, the root rule
\* is added, no node exists and the scheduler has not started.
InitGraph ==
  /\ \E rules \in RuleLists, targets \in Args : rs = Append(rules, RootRule(targets))
  /\ existing \in Workspaces
  /\ gnodes = <<>>
  /\ buildpc = "applyrules"
  /\ chosen = <<>>
  /\ rulepeak = <<>>
  /\ TextIdle
  /\ graph = Chain
  /\ dryrun = FALSE
  /\ rebuildall \in BOOLEAN
  /\ rebuildtargets = {}
  /\ subprocsAllowed = 1
  /\ reliable = FALSE
  /\ run = 1
  /\ rune = NoRune
  /\ fs \in graph.workspaces
  /\ mainpc = "buildgraph"
  /\ NewProcess

schedVars ==
  <<graph, dryrun, rebuildall, rebuildtargets, subprocsAllowed, reliable, run, rune,
    fs, nodeVars, spawned, pc, localVars, slotVars, histVars, textVars>>

\* applyrules for the root, from an empty graph and counters at zero.
Applied ==
  applyrules([nodes |-> <<>>,
              rulecnt |-> [k \in 1..Len(rs) |-> 0],
              peak |-> [k \in 1..Len(rs) |-> 0],
              panic |-> FALSE], RootName)

\* buildgraph: g.root = applyrules(rs, g, target, rulecnt).  A panic in the
\* call ends the process with exit code 2 before any graph is returned.
ApplyRules ==
  /\ mainpc = "buildgraph"
  /\ buildpc = "applyrules"
  /\ IF Applied.panic
     THEN /\ buildpc' = "panic"
          /\ mainpc' = "exit"
          /\ exitCode' = 2
          /\ UNCHANGED <<gnodes, rulepeak>>
     ELSE /\ gnodes' = Applied.nodes
          /\ rulepeak' = Applied.peak
          /\ buildpc' = "cyclecheck"
          /\ UNCHANGED mainVars
  /\ UNCHANGED <<rs, existing, chosen, schedVars>>

\* buildgraph: g.cyclecheck(g.root) ends the process with mkError.
CycleCheckFatal ==
  /\ mainpc = "buildgraph"
  /\ buildpc = "cyclecheck"
  /\ cyclecheck(gnodes, RootName).fatal
  /\ mainpc' = "exit"
  /\ exitCode' = 1
  /\ UNCHANGED <<buildVars, schedVars>>

\* buildgraph: g.cyclecheck(g.root) returns and the root is made Probable.
CycleCheckPass ==
  /\ mainpc = "buildgraph"
  /\ buildpc = "cyclecheck"
  /\ ~cyclecheck(gnodes, RootName).fatal
  /\ gnodes' = [cyclecheck(gnodes, RootName).nodes
                  EXCEPT ![RootName].flags = setFlag(@, nodeFlagProbable)]
  /\ buildpc' = "vacuous"
  /\ UNCHANGED <<rs, existing, chosen, rulepeak, mainVars, schedVars>>

\* buildgraph: g.vacuous(g.root).
Vacuous ==
  /\ mainpc = "buildgraph"
  /\ buildpc = "vacuous"
  /\ gnodes' = vacuous(gnodes, RootName).nodes
  /\ buildpc' = "ambiguous"
  /\ UNCHANGED <<rs, existing, chosen, rulepeak, mainVars, schedVars>>

\* buildgraph: g.ambiguous(g.root) ends the process with mkError.
AmbiguousFatal ==
  /\ mainpc = "buildgraph"
  /\ buildpc = "ambiguous"
  /\ ambiguous(gnodes, RootName).fatal
  /\ mainpc' = "exit"
  /\ exitCode' = 1
  /\ UNCHANGED <<buildVars, schedVars>>

\* buildgraph: g.ambiguous(g.root) returns, buildgraph returns the graph and
\* main calls mkNode on its root.
AmbiguousPass ==
  /\ mainpc = "buildgraph"
  /\ buildpc = "ambiguous"
  /\ ~ambiguous(gnodes, RootName).fatal
  /\ gnodes' = ambiguous(gnodes, RootName).nodes
  /\ buildpc' = "done"
  /\ mainpc' = "mkNode"
  /\ UNCHANGED <<rs, existing, chosen, rulepeak, exitCode, schedVars>>

\* mkNode(u) for a node with edges picks the edge whose rule it uses; it is
\* called for the root by main and for the others by a mkNode above them.
MkNodeEdge(u) ==
  /\ mainpc = "mkNode"
  /\ buildpc = "done"
  /\ u \in DOMAIN gnodes
  /\ u \notin DOMAIN chosen
  /\ u = RootName \/ \E p \in DOMAIN chosen : u \in Tails(gnodes, p)
  /\ Len(gnodes[u].prereqs) > 0
  /\ chosen' = (u :> recipeEdge(gnodes, u)) @@ chosen
  /\ UNCHANGED <<rs, existing, gnodes, buildpc, rulepeak, mainVars, schedVars>>

NextGraph ==
  \/ ApplyRules
  \/ CycleCheckFatal
  \/ CycleCheckPass
  \/ Vacuous
  \/ AmbiguousFatal
  \/ AmbiguousPass
  \/ \E u \in DOMAIN gnodes : MkNodeEdge(u)

SpecGraph == InitGraph /\ [][NextGraph]_vars

\* ================================================================= claims

\* The workers whose recipe is executing (dorecipe has been called and has
\* not returned).
Executing == {n \in Nodes : pc[n] = "recipe"}

\* The workers that have decided to run their recipe and wait for a slot.
AwaitingSlot == {n \in Nodes : pc[n] \in {"reserve", "condwait", "woken"}}

\* m depends on n through at most k edges.
RECURSIVE DependsWithin(_, _, _)
DependsWithin(m, n, k) ==
  /\ k > 0
  /\ \E q \in Elems(graph.prereqs[m]) : q = n \/ DependsWithin(q, n, k - 1)

DependsOn(m, n) == DependsWithin(m, n, Cardinality(Nodes))

\* C1: however many mkNode calls reach a node, dorecipe is called for it at
\* most once in a build run.
C1_RecipeAtMostOnce == \A n \in Nodes : ndorecipe[n] <= 1

\* C1 witness: a node's recipe has been started and a further mkNode call
\* for the same node is still on its way.
C1_Witness ==
  \E n \in Nodes : ndorecipe[n] = 1 /\ \E r \in BOOLEAN : spawned[<<n, r>>] > 0

C3_AtMostAllowed == Cardinality(Executing) <= subprocsAllowed

\* C3 witness: every slot is taken by an executing recipe and a further
\* worker waits for one.
C3_Witness ==
  /\ Cardinality(Executing) = subprocsAllowed
  /\ \E n \in Nodes : pc[n] = "condwait"

\* C4: while the recipe of a node executes, every prerequisite it subscribed
\* to has reported, and no prerequisite's recipe is executing or still
\* waiting to be started.
C4_RecipeAfterPrereqs ==
  \A n \in Executing :
    /\ pending[n] = 0
    /\ \A q \in Elems(graph.prereqs[n]) : q \notin Executing \cup AwaitingSlot

\* C5: when the build has run to its end, every node that depends on a
\* Failed node is Failed.
C5_FailurePropagates ==
  mainpc = "exit" /\ exitCode = 0 =>
    \A n \in Nodes : \A m \in Nodes :
      status[n] = nodeStatusFailed /\ DependsOn(m, n) => status[m] = nodeStatusFailed

\* C6: no recipe is started for a node one of whose prerequisites has ended
\* Failed.
C6_NoRecipeAfterFailedPrereq ==
  [][\A n \in Nodes :
       pc[n] # "recipe" /\ pc'[n] = "recipe" =>
         \A q \in Elems(graph.prereqs[n]) : status[q] # nodeStatusFailed]_vars

\* C7: the process exits with code 0 only if no node is Failed.
C7_ExitCode ==
  mainpc = "exit" /\ exitCode = 0 => \A n \in Nodes : status[n] # nodeStatusFailed

\* C8 as stated: a status changes only Ready -> Started or Started -> Done,
\* NoOp, Failed.
C8_Original ==
  [][\A n \in Nodes :
       status'[n] # status[n] =>
         \/ status[n] = nodeStatusReady /\ status'[n] = nodeStatusStarted
         \/ status[n] = nodeStatusStarted /\ status'[n] \in Terminal]_vars

\* C8 amended: a status changes only Ready -> Started, NoOp -> Started or
\* Started -> Done, NoOp, Failed; so Done and Failed are final and entered at
\* most once, while a NoOp node may be started again.
C8_StatusTransitions ==
  [][\A n \in Nodes :
       status'[n] # status[n] =>
         \/ status[n] \in {nodeStatusReady, nodeStatusNop} /\ status'[n] = nodeStatusStarted
         \/ status[n] = nodeStatusStarted /\ status'[n] \in Terminal]_vars

\* C8 witness: the root is in its second mkNodePrereqs, so each target has
\* reported a terminal status to it, and a target is Started again.
C8_Witness ==
  /\ pc[Root] \in {"prereqs", "wait"}
  /\ pass[Root] = 2
  /\ \E n \in Targets(graph) : status[n] = nodeStatusStarted

\* The subscriptions of worker m that have not been served: its entries in
\* listener lists that the deferred function has not yet sent to.
Outstanding(m) ==
  UNION {{<<n, k>> : k \in {j \in 1..Len(listeners[n]) :
                              /\ listeners[n][j] = m
                              /\ pc[n] = "notify" => j >= idx[n]}} : n \in Nodes}

\* C9: every subscription gets exactly one message: the messages a worker
\* still expects are exactly its unserved subscriptions (never two), and the
\* build never comes to a halt with a subscription unserved (never zero).
C9_ExactlyOneMessage ==
  /\ \A m \in Nodes : pc[m] \in {"prereqs", "wait"} => pending[m] = Cardinality(Outstanding(m))
  /\ Running /\ ~ENABLED Next => \A n \in Nodes : listeners[n] = <<>>

\* The staleness rule of C10 for node n with refreshed exists/time ex/ut,
\* with the time comparison newer(prereq time, target time).
StaleRule(n, ex, ut, newer(_, _)) ==
  IF n \in graph.virtual THEN {TRUE}
  ELSE IF ~ex /\ required[n] THEN {TRUE}
  ELSE IF ex THEN {\E q \in Elems(graph.prereqs[n]) :
                     newer(t[q], ut) \/ status[q] = nodeStatusDone}
  ELSE BOOLEAN

NewerOrSame(x, y) == x >= y

Newer(x, y) == x > y

\* C10 as stated: the staleness check finds a node (not forced by -r or -a)
\* stale as the rule says, a prerequisite counting when its time is greater
\* than or equal to the target's.
C10_Original ==
  [][\A n \in Nodes :
       pc[n] = "check" /\ pc'[n] # "check" /\ ~Forced(n) =>
         (~uptodate'[n]) \in StaleRule(n, exists'[n], t'[n], NewerOrSame)]_vars

\* C10 amended: the same, a prerequisite counting only when its time is
\* strictly greater than the target's.
C10_Staleness ==
  [][\A n \in Nodes :
       pc[n] = "check" /\ pc'[n] # "check" /\ ~Forced(n) =>
         (~uptodate'[n]) \in StaleRule(n, exists'[n], t'[n], Newer)]_vars

\* C10 witness: an existing, non-virtual, unforced node was found up to date
\* with a prerequisite of exactly its own modification time.
C10_Witness ==
  \E n \in Nodes \ graph.virtual :
    /\ pc[n] = "finish"
    /\ uptodate[n]
    /\ exists[n]
    /\ ~Forced(n)
    /\ \E q \in Elems(graph.prereqs[n]) : exists[q] /\ t[q] = t[n]

\* The nodes of the graph: the root and everything it depends on.
Reachable == {Root} \cup {n \in Nodes : DependsOn(Root, n)}

\* C11: in the second of two runs of mk on a workspace whose recipes all
\* succeed and write their target, no recipe is executed for a non-virtual
\* node, and when the run ends every non-virtual node that is not being
\* examined once more is NoOp.
C11_Idempotence ==
  run = 2 =>
    \A n \in Reachable \ graph.virtual :
      /\ ndorecipe[n] = 0
      /\ mainpc = "exit" /\ exitCode = 0 /\ pc[n] = "idle" => status[n] = nodeStatusNop

\* C12: when a run of mk on a workspace whose recipes all succeed and write
\* their target ends successfully, every non-virtual node that is Done has a
\* file no older than the file of each of its prerequisites.
C12_DoneNotOlder ==
  mainpc = "exit" /\ exitCode = 0 /\ (\A m \in Nodes : status[m] # nodeStatusFailed) =>
    \A n \in Reachable \ graph.virtual :
      status[n] = nodeStatusDone =>
        \A q \in Elems(graph.prereqs[n]) : StatTime(fs[n]) >= StatTime(fs[q])

\* C13: only named targets are in the shallow-rebuild set; a node in that
\* set, and every node under -a, is found stale whatever the timestamps are,
\* and its mkNode call does not finish without having executed its non-empty
\* recipe; under -r alone a node that is not a named target is stale exactly
\* when the timestamp rule says so.
C13_ForcedRebuild ==
  [][/\ rebuildtargets \subseteq Targets(graph)
     /\ \A n \in Nodes :
          LET forced == rebuildall \/ n \in rebuildtargets
          IN  /\ pc[n] = "check" /\ pc'[n] # "check" /\ forced => ~uptodate'[n]
              /\ pc[n] # "finish" /\ pc'[n] = "finish" /\ forced
                   /\ n \in graph.ruled \cap graph.recipe => ndorecipe'[n] >= 1
              /\ pc[n] = "check" /\ pc'[n] # "check" /\ ~forced =>
                   (~uptodate'[n]) \in StaleRule(n, exists'[n], t'[n], Newer)]_vars

\* C13 witness: under -r alone, the recipe of a named target executes
\* although the target exists and no prerequisite is newer or Done, while a
\* prerequisite that is not a named target was found up to date.
C13_Witness ==
  /\ ~rebuildall
  /\ \E n \in rebuildtargets :
       /\ pc[n] = "recipe"
       /\ exists[n]
       /\ graph.prereqs[n] # <<>>
       /\ \A q \in Elems(graph.prereqs[n]) :
            /\ q \notin rebuildtargets
            /\ exists[q]
            /\ t[q] <= t[n]
            /\ status[q] = nodeStatusNop

\* In a dry pass no interpreter has been launched, and a node whose mkNode
\* call has called dorecipe and returned is Done.
DryPassState ==
  Dry => \A n \in Nodes :
           /\ nsubprocess[n] = 0
           /\ ndorecipe[n] >= 1 /\ pc[n] = "idle" => status[n] = nodeStatusDone

\* C17: in a dry run no recipe interpreter is launched and no file changes;
\* every node for which dorecipe is called ends Done; and a non-virtual
\* dependent that exists or is required is found stale when it is checked
\* against a prerequisite that ended Done in this way.
C17_DryRun ==
  [][/\ DryPassState'
     /\ Dry => fs' = fs
     /\ Dry => \A m \in Nodes \ graph.virtual :
                 /\ pc[m] = "check" /\ pc'[m] # "check"
                 /\ exists'[m] \/ required[m]
                 /\ \E q \in Elems(graph.prereqs[m]) :
                      ndorecipe[q] >= 1 /\ status[q] = nodeStatusDone
                 => ~uptodate'[m]]_vars

\* C17 witness: in a dry run, dorecipe has been called for an existing,
\* unforced node that is no older than any prerequisite, one of which is
\* Done after its own dorecipe call.
C17_Witness ==
  /\ dryrun
  /\ \E m \in Nodes \ graph.virtual :
       /\ pc[m] = "recipe"
       /\ exists[m]
       /\ ~rebuildall /\ m \notin rebuildtargets
       /\ \A q \in Elems(graph.prereqs[m]) : t[q] <= t[m]
       /\ \E q \in Elems(graph.prereqs[m]) :
            ndorecipe[q] = 1 /\ status[q] = nodeStatusDone

\* C19: when mkNode claims a node without edges, the node finishes as NoOp
\* and the build goes on if the target is virtual or its file exists, and
\* the build fails with exit code 1 otherwise; such a node is never Done.
C19_NoRuleNode ==
  [][\A n \in Nodes \ graph.ruled :
       /\ status'[n] # nodeStatusDone
       /\ status[n] # nodeStatusStarted /\ status'[n] = nodeStatusStarted =>
            IF n \in graph.virtual \/ exists[n]
            THEN mainpc' = mainpc /\ finalstatus'[n] = nodeStatusNop
            ELSE mainpc' = "exit" /\ exitCode' = 1]_vars

\* C20: a node whose rule has the E attribute never ends Failed.
C20_NonStop == \A n \in graph.nonstop : status[n] # nodeStatusFailed

\* C18: no interpreter is launched during the dry pass or while the answer
\* is awaited; once the prompt is printed the dry pass prints no further
\* recipe; the real pass starts only when the rune read is 'y', and any
\* other rune that is not whitespace, or the end of input, ends the run.
C18_Interactive ==
  [][/\ mainpc' \in {"dry", "prompt"} => \A n \in Nodes : nsubprocess'[n] = 0
     /\ mainpc = "prompt" /\ mainpc' = "prompt" => ndorecipe' = ndorecipe
     /\ mainpc = "prompt" /\ mainpc' = "mkNode" => rune' = "y"
     /\ mainpc = "prompt" /\ mainpc' = "exit" =>
          /\ rune' \notin Whitespace \cup {"y"}
          /\ \A n \in Nodes : nsubprocess'[n] = 0]_vars

\* The nodes that can be reached from the nodes in S along edges.
RECURSIVE ReachSet(_, _)
ReachSet(nodes, S) ==
  LET T == S \cup UNION {Tails(nodes, u) : u \in S}
  IN IF T = S THEN S ELSE ReachSet(nodes, T)

\* The graph has a directed cycle that can be reached from the root.
HasCycle(nodes) ==
  \E u \in ReachSet(nodes, {RootName}) : u \in ReachSet(nodes, Tails(nodes, u))

\* The scheduler has not started: mkNode was called for no node and no
\* recipe was handed to dorecipe.
NothingRan ==
  /\ chosen = <<>>
  /\ \A n \in Nodes : status[n] = nodeStatusReady /\ ndorecipe[n] = 0 /\ nsubprocess[n] = 0

\* C14: when the graph applyrules built has a directed cycle reachable from
\* the root, cyclecheck ends the process with exit code 1 before mkNode is
\* called for any node, so before any recipe runs; when that graph has no
\* cycle (diamonds included), cyclecheck reports nothing and buildgraph goes
\* on to its next pass.
C14_CycleCheck ==
  [][mainpc = "buildgraph" /\ buildpc = "cyclecheck" =>
       IF HasCycle(gnodes)
       THEN mainpc' = "exit" /\ exitCode' = 1 /\ NothingRan'
       ELSE mainpc' = "buildgraph" /\ buildpc' = "vacuous"]_vars

\* C14's case: rules t: b and b: t, the cycle is found and mk has exited;
\* both nodes have two edges leading to them or from them.
C14_Witness ==
  /\ mainpc = "exit"
  /\ exitCode = 1
  /\ buildpc = "cyclecheck"
  /\ <<"b">> \in Tails(gnodes, <<"t">>)
  /\ <<"t">> \in Tails(gnodes, <<"b">>)

\* The rules that have an edge at node u.
RulesAt(nodes, u) == {nodes[u].prereqs[i].r : i \in 1..Len(nodes[u].prereqs)}

\* The edges of rule k at node u, in order.
EdgesOf(nodes, u, k) == SelectSeq(nodes[u].prereqs, LAMBDA e : e.r = k)

\* Rules k and m have non-empty recipes that are not equivalent: the texts
\* differ or the interpreters differ.
Conflict(k, m) ==
  /\ rs[k].recipe # "" /\ rs[m].recipe # ""
  /\ rs[k].recipe # rs[m].recipe \/ rs[k].shell # rs[m].shell

\* Node u has a conflict that the preference for concrete rules does not
\* settle: between two concrete rules, or between two meta-rules when no
\* concrete rule at u has a recipe.
Unsettled(nodes, u) ==
  \E k, m \in RulesAt(nodes, u) :
    /\ Conflict(k, m)
    /\ isMeta(rs[k]) = isMeta(rs[m])
    /\ isMeta(rs[k]) => \A c \in RulesAt(nodes, u) : isMeta(rs[c]) \/ rs[c].recipe = ""

\* C15: when a concrete rule c and a meta-rule m both have edges at a node u
\* and carry different non-empty recipes, then (1) if ambiguous returns, u
\* has kept every edge of c and no edge of m; (2) ambiguous is fatal only if
\* some node has a conflict that the preference does not settle, so the
\* pair c, m alone is never reported; (3) the edge mkNode later uses for u
\* is not an edge of m, and if its rule has a recipe, it is the recipe c
\* has.
C15_ConcreteOverMeta ==
  [][/\ mainpc = "buildgraph" /\ buildpc = "ambiguous" =>
          /\ mainpc' = "exit" => \E w \in DOMAIN gnodes : Unsettled(gnodes, w)
          /\ \A u \in DOMAIN gnodes : \A c, m \in RulesAt(gnodes, u) :
               ~isMeta(rs[c]) /\ isMeta(rs[m]) /\ Conflict(c, m) /\ mainpc' = "mkNode" =>
                 /\ EdgesOf(gnodes', u, m) = <<>>
                 /\ EdgesOf(gnodes', u, c) = EdgesOf(gnodes, u, c)
     /\ \A u \in DOMAIN chosen' : \A c \in RulesAt(gnodes', u) :
          ~isMeta(rs[c]) /\ rs[c].recipe # "" =>
            LET used == rs[gnodes'[u].prereqs[chosen'[u]].r]
            IN /\ used.recipe # "" => used.recipe = rs[c].recipe /\ used.shell = rs[c].shell
               /\ \A m \in 1..Len(rs) :
                    isMeta(rs[m]) /\ Conflict(c, m) => gnodes'[u].prereqs[chosen'[u]].r # m]_vars

\* C15's case: t has a concrete rule with a recipe, a meta-rule with another
\* recipe matches t and its edge at t was not vacuous (it has no tail, or
\* the file it leads to exists), ambiguous has returned and mkNode uses the
\* concrete rule's recipe for t.
C15_Witness ==
  /\ mainpc = "mkNode"
  /\ <<"t">> \in DOMAIN chosen
  /\ \E c \in RulesAt(gnodes, <<"t">>), m \in 1..Len(rs) :
       /\ ~isMeta(rs[c]) /\ isMeta(rs[m]) /\ Conflict(c, m)
       /\ rs[c].recipe # rs[m].recipe
       /\ ~match(CompilePattern(rs[m].targets[1]), <<"t">>).nil
       /\ \A i \in 1..Len(rs[m].prereqs) :
            expandSuffixes(rs[m].prereqs[i], <<"t">>).out \in existing
       /\ EdgesOf(gnodes, <<"t">>, m) = <<>>
       /\ rs[gnodes[<<"t">>].prereqs[chosen[<<"t">>]].r].recipe = rs[c].recipe

\* C16: when buildgraph reaches ambiguous and some node of the graph has
\* edges of two rules with non-empty recipes that are not equivalent (the
\* texts or the interpreters differ) and the preference for concrete rules
\* does not settle it, ambiguous ends the process with exit code 1 before
\* mkNode is called, so no recipe is executed; when at every node all the
\* recipes are equivalent, ambiguous reports nothing.
C16_AmbiguousRecipes ==
  [][mainpc = "buildgraph" /\ buildpc = "ambiguous" =>
       /\ (\E u \in ReachSet(gnodes, {RootName}) : Unsettled(gnodes, u)) =>
            mainpc' = "exit" /\ exitCode' = 1 /\ NothingRan'
       /\ (\A u \in DOMAIN gnodes : \A k, m \in RulesAt(gnodes, u) : ~Conflict(k, m)) =>
            mainpc' = "mkNode" /\ buildpc' = "done"]_vars

\* C16's case: two concrete rules for t with distinct recipe texts have
\* edges at t and ambiguous has ended the process.
C16_Witness ==
  /\ mainpc = "exit"
  /\ exitCode = 1
  /\ buildpc = "ambiguous"
  /\ \E k, m \in RulesAt(gnodes, <<"t">>) :
       /\ ~isMeta(rs[k]) /\ ~isMeta(rs[m])
       /\ rs[k].recipe # "" /\ rs[m].recipe # "" /\ rs[k].recipe # rs[m].recipe

\* C21: the step in which an exclusive recipe ends (finishExclusiveSubproc)
\* leaves the counter at 0 with no recipe executing, both locks free and no
\* worker left in Wait; and whenever no exclusive recipe holds or awaits the
\* exclusive slot, the counter is the number of recipes executing, so that
\* a shared recipe asking for a slot gets one while fewer than
\* subprocsAllowed are executing.
C21_ExclusiveRelease ==
  [][/\ \A n \in graph.exclusive :
          pc[n] = "recipe" /\ pc'[n] = "finish" =>
            /\ subprocsRunning' = 0
            /\ Executing' = {}
            /\ condL' = None /\ exclusiveSubproc' = None
            /\ \A m \in Nodes : pc'[m] # "condwait"
     /\ exclusiveSubproc' = None =>
          /\ subprocsRunning' = Cardinality(Executing')
          /\ \A m \in Nodes \ graph.exclusive :
               pc[m] = "reserve" /\ pc'[m] = "condwait" =>
                 Cardinality(Executing) = subprocsAllowed]_vars

\* C21's case: the exclusive recipe of a has ended and two shared recipes
\* run at the same time on the two slots it gave back.
C21_Witness ==
  /\ \E a \in graph.exclusive : ndorecipe[a] = 1 /\ pc[a] \in {"finish", "notify", "idle"}
  /\ subprocsAllowed = 2
  /\ Cardinality(Executing) = 2
  /\ subprocsRunning = 2

\* The worker of n holds n's mutex in its deferred function and its send to
\* the listener m cannot proceed, because m is not receiving: m is in the
\* loop of mkNodePrereqs, waiting for the mutex of its next prerequisite,
\* which is locked.
SendBlockedOnLocker(n, m) ==
  /\ pc[n] = "notify"
  /\ mutex[n]
  /\ m = listeners[n][idx[n]]
  /\ pc[m] = "prereqs"
  /\ mutex[graph.prereqs[m][idx[m]]]

\* C26: no state is reachable in which a finishing node holds its mutex,
\* blocked on the send to a listener, while that listener is blocked on a
\* node mutex (from which state the root's mkNode would not return).
C26_NoBlockedSend ==
  \A n, m \in Nodes : ~SendBlockedOnLocker(n, m)

\* C27: while the recipe of a node executes, every prerequisite of the node
\* has been through a mkNode call with required = true, or has had its own
\* recipe executed: no prerequisite was left to a call with required =
\* false that decided not to build it.
C27_RequiredPass ==
  \A n \in Executing :
    \A q \in Elems(graph.prereqs[n]) : q \in reqpass \/ ndorecipe[q] >= 1

\* C28: when mkNode has picked the edge of a node of which some edge comes
\* from a rule with a recipe, the edge it picked comes from a rule with a
\* recipe (whose recipe is the one mkNode can execute for the node).
C28_RecipeEdge ==
  \A u \in DOMAIN chosen :
    (\E k \in RulesAt(gnodes, u) : rs[k].recipe # "")
      => rs[gnodes[u].prereqs[chosen[u]].r].recipe # ""

\* --------------------------------------- mkfiles whose rules share targets

\* Rules with several targets, and rules that lead from a prerequisite of
\* such a rule back to one of its targets:
\*   t b: c          c: b  (R1)      t: c  (R2)      t: b  (R1)
\*   %: %.x  (R2)    %.x %: %.x %.y  (R1)
ChainPool ==
  { NewRule(<< <<"t">>, <<"b">> >>, << <<"c">> >>, "", <<>>),
    NewRule(<< <<"c">> >>, << <<"b">> >>, "R1", <<>>),
    NewRule(<< <<"t">> >>, << <<"c">> >>, "R2", <<>>),
    NewRule(<< <<"t">> >>, << <<"b">> >>, "R1", <<>>),
    NewRule(<< <<"%">> >>, << <<"%", ".", "x">> >>, "R2", <<>>),
    NewRule(<< <<"%", ".", "x">>, <<"%">> >>,
            << <<"%", ".", "x">>, <<"%", ".", "y">> >>, "R1", <<>>),
    NewRule(<< <<"t">>, <<"%", ".", "x">> >>, << <<"b">> >>, "R1", <<>>) }

ChainLists ==
  {s \in UNION {[1..n -> ChainPool] : n \in 1..MaxRules} :
     \A i, j \in 1..Len(s) : i # j => s[i] # s[j]}

\* main up to its call of buildgraph, for the mkfiles above.
InitChain ==
  /\ \E rules \in ChainLists, targets \in Args : rs = Append(rules, RootRule(targets))
  /\ existing \in Workspaces
  /\ gnodes = <<>>
  /\ buildpc = "applyrules"
  /\ chosen = <<>>
  /\ rulepeak = <<>>
  /\ TextIdle
  /\ graph = Chain
  /\ dryrun = FALSE
  /\ rebuildall \in BOOLEAN
  /\ rebuildtargets = {}
  /\ subprocsAllowed = 1
  /\ reliable = FALSE
  /\ run = 1
  /\ rune = NoRune
  /\ fs \in graph.workspaces
  /\ mainpc = "buildgraph"
  /\ NewProcess

SpecChain == InitChain /\ [][NextGraph]_vars

\* C29: once applyrules has built the graph, no rule's counter has been
\* above 1: no rule was applied at a node while it was being applied at a
\* node further up the chain from the root.
C29_RuleOncePerChain ==
  buildpc # "applyrules" => \A k \in DOMAIN rulepeak : rulepeak[k] <= maxRuleCnt

\* The rules whose edges at u are gone after a step.
Removed(u) == RulesAt(gnodes, u) \ RulesAt(gnodes', u)

Letters ==
  {"N", "M", "a", "b", "c", "d", "e", "f", "i", "k", "l", "m", "r", "t", "u", "v", "x", "y"}

Digits == {"1"}

\* The backquote character.
Backquote == "BACKQUOTE"

\* utf8.RuneError, which DecodeRuneInString returns (with width 0) on "".
RuneError == "\\uFFFD"

\* utf8.DecodeRuneInString(s): the first character and its width.
DecodeRune(s) == IF Len(s) = 0 THEN [c |-> RuneError, w |-> 0] ELSE [c |-> s[1], w |-> 1]

\* strings.Join(ss, sep).
RECURSIVE Join(_, _)
Join(ss, sep) ==
  IF Len(ss) = 0 THEN <<>>
  ELSE IF Len(ss) = 1 THEN ss[1]
  ELSE ss[1] \o sep \o Join(Tail(ss), sep)

isValidVarName(v) ==
  \A k \in 1..Len(v) :
    /\ (k = 1 => v[k] \in Letters \cup {"_"})
    /\ v[k] \in Letters \cup Digits \cup {"_"}

\* The loop of expandSigil over a bare name: the offset of the first
\* character from j on that cannot continue a name.
RECURSIVE nameEnd(_, _)
nameEnd(input, j) ==
  IF j < Len(input) /\ (At(input, j) \in Letters \cup {"_"} \/ (j > 0 /\ At(input, j) \in Digits))
  THEN nameEnd(input, j + 1)
  ELSE j

\* The offset expandSigil returns for "$$".
dollarOffset == 2

\* expandSigil(input, vars), input being what follows a '$': the values
\* and the number of characters of input consumed.
expandSigil(input, vs) ==
  LET c == DecodeRune(input).c
      verbatim == [out |-> << <<"$">> \o input >>, off |-> Len(input)]
      lookup(varname, offset) ==
        IF isValidVarName(varname)
        THEN IF varname \in DOMAIN vs
             THEN [out |-> vs[varname], off |-> offset]
             ELSE [out |-> << <<"$">> \o Slice(input, 0, offset) >>, off |-> offset]
        ELSE verbatim
  IN IF c = "$" THEN [out |-> << <<"$">> >>, off |-> dollarOffset]
     ELSE IF c = "{"
     THEN LET j == IndexAny(Slice(input, 1, Len(input)), {"}"})
          IN IF j < 0 THEN verbatim
             ELSE lookup(Slice(input, 1, 1 + j), 1 + j + 1)
     ELSE LET j == nameEnd(input, 0)
          IN IF j > 0 THEN lookup(Slice(input, 0, j), j) ELSE verbatim

\* expandEscape(input), input being what follows a backslash.
expandEscape(input) ==
  LET d == DecodeRune(input)
  IN IF d.c \in {"\t", " "} THEN [out |-> <<d.c>>, off |-> d.w]
     ELSE [out |-> <<"\\", d.c>>, off |-> d.w]

\* expandSingleQuoted(input), input being what follows a quote.
expandSingleQuoted(input) ==
  LET j == IndexAny(input, {"'"})
  IN IF j < 0 THEN [out |-> input, off |-> Len(input)]
     ELSE [out |-> Slice(input, 0, j), off |-> j + 1]

\* expandBackQuoted(input, vars), input being what follows a backquote; a
\* command between backquotes is taken to print nothing.
expandBackQuoted(input) ==
  LET j == IndexAny(input, {Backquote})
  IN IF j < 0 THEN [out |-> <<input>>, off |-> Len(input)]
     ELSE [out |-> <<>>, off |-> j + 1]

lastPartMutant(parts, expanded) == parts

\* The end of expand: the partial word, if not empty, is the last part.
lastPart(parts, expanded) == IF Len(expanded) > 0 THEN Append(parts, expanded) ELSE parts

RECURSIVE expandFrom(_, _, _, _, _, _), expandDoubleQuotedFrom(_, _, _, _)

\* expandDoubleQuoted(input, vars, expandBackticks), input being what
\* follows a double quote; j is the loop's variable, which the loop sets to
\* an index relative to its last value.  Without a backslash in the input
\* the loop ends in its first round.
expandDoubleQuotedFrom(input, vs, bt, j) ==
  LET found == IndexAny(Slice(input, j, Len(input)), {"\"", "\\"})
  IN IF found < 0 THEN [out |-> input, off |-> Len(input)]
     ELSE
       LET d == DecodeRune(Slice(input, found, Len(input)))
           j1 == found + d.w
       IN IF d.c = "\""
          THEN [out |-> Join(expandFrom(Slice(input, 0, j1), vs, bt, 0, <<>>, <<>>), <<" ">>),
                off |-> j1 + d.w]
          ELSE IF d.c # "\\" THEN expandDoubleQuotedFrom(input, vs, bt, j1)
          ELSE IF j1 + d.w < Len(input)
               THEN LET j2 == j1 + d.w
                    IN expandDoubleQuotedFrom(input, vs, bt,
                                              j2 + DecodeRune(Slice(input, j2, Len(input))).w)
               ELSE [out |-> input, off |-> Len(input)]

\* The loop of expand(input, vars, expandBackticks) from offset i on, with
\* the parts finished so far and the partial word `expanded`.
expandFrom(input, vs, bt, i, parts, expanded) ==
  IF i >= Len(input) THEN lastPart(parts, expanded)
  ELSE
    LET found == IndexAny(Slice(input, i, Len(input)), {"\"", "'", Backquote, "$", "\\"})
    IN IF found < 0 THEN lastPart(parts, expanded \o Slice(input, i, Len(input)))
       ELSE
         LET j == found + i
             sofar == expanded \o Slice(input, i, j)
             c == At(input, j)
             i1 == j + 1
             rest == Slice(input, i1, Len(input))
         IN CASE c = "\\" ->
                   LET r == expandEscape(rest)
                   IN expandFrom(input, vs, bt, i1 + r.off, parts, sofar \o r.out)
              [] c = "\"" ->
                   LET r == expandDoubleQuotedFrom(rest, vs, bt, 0)
                   IN expandFrom(input, vs, bt, i1 + r.off, parts, sofar \o r.out)
              [] c = "'" ->
                   LET r == expandSingleQuoted(rest)
                   IN expandFrom(input, vs, bt, i1 + r.off, parts, sofar \o r.out)
              [] c = Backquote ->
                   IF bt
                   THEN LET r == expandBackQuoted(rest)
                        IN expandFrom(input, vs, bt, i1 + r.off, parts,
                                      IF Len(r.out) > 0 THEN sofar \o r.out[1] ELSE sofar)
                   ELSE expandFrom(input, vs, bt, i1 + Len(input), parts, sofar \o input)
              [] c = "$" ->
                   LET r == expandSigil(rest, vs)
                       n == Len(r.out)
                   IN IF n = 0 THEN expandFrom(input, vs, bt, i1 + r.off, parts, sofar)
                      ELSE IF n = 1
                      THEN expandFrom(input, vs, bt, i1 + r.off, parts, sofar \o r.out[1])
                      ELSE expandFrom(input, vs, bt, i1 + r.off,
                                      Append(parts, sofar \o r.out[1]) \o SubSeq(r.out, 2, n - 1),
                                      r.out[n])

expand(input, vs, bt) == expandFrom(input, vs, bt, 0, <<>>, <<>>)

\* The loop of expandRecipeSigils(input, vars) from offset i on.
RECURSIVE expandRecipeSigilsFrom(_, _, _, _)
expandRecipeSigilsFrom(input, vs, i, expanded) ==
  IF i >= Len(input) THEN expanded
  ELSE
    LET off == IndexAny(Slice(input, i, Len(input)), {"$", "\\"})
    IN IF off < 0 THEN expanded \o Slice(input, i, Len(input))
       ELSE
         LET sofar == expanded \o Slice(input, i, i + off)
             i1 == i + off + 1
             rest == Slice(input, i1, Len(input))
         IN IF At(input, i + off) = "$"
            THEN LET r == expandSigil(rest, vs)
                 IN expandRecipeSigilsFrom(input, vs, i1 + r.off, sofar \o Join(r.out, <<" ">>))
            ELSE LET d == DecodeRune(rest)
                 IN expandRecipeSigilsFrom(input, vs, i1 + d.w,
                                           sofar \o (IF d.c = "$" THEN <<"$">> ELSE <<"\\", d.c>>))

expandRecipeSigils(input, vs) == expandRecipeSigilsFrom(input, vs, 0, <<>>)

\* --------------------------------------------------------------- tokens

tokenError == "Error"

tokenNewline == "Newline"

tokenWord == "Word"

tokenPipeInclude == "PipeInclude"

tokenRedirInclude == "RedirInclude"

tokenColon == "Colon"

tokenAssign == "Assign"

tokenRecipe == "Recipe"

Token(typ, val, line, col) == [typ |-> typ, val |-> val, line |-> line, col |-> col]

\* The loop of executeAssignment that joins the tokens after the assignee
\* into words: a token that is not a word, or that follows one that is not,
\* is glued to the word before it.
RECURSIVE assignedWords(_, _, _)
assignedWords(ts, i, input) ==
  IF i > Len(ts) THEN input
  ELSE IF ts[i].typ # tokenWord \/ (i > 2 /\ ts[i - 1].typ # tokenWord)
       THEN IF Len(input) = 0
            THEN assignedWords(ts, i + 1, <<ts[i].val>>)
            ELSE assignedWords(ts, i + 1,
                               [input EXCEPT ![Len(input)] = @ \o ts[i].val])
       ELSE assignedWords(ts, i + 1, Append(input, ts[i].val))

\* Its loop over the words: the concatenation of their expansions.
RECURSIVE expandAll(_, _, _)
expandAll(input, vs, bt) ==
  IF Len(input) = 0 THEN <<>>
  ELSE expand(input[1], vs, bt) \o expandAll(Tail(input), vs, bt)

\* rs.add(r): the rules after the call.
addMutant(rules, r) == <<r>> \o rules

add(rules, r) == Append(rules, r)

\* rs.executeAssignment(ts): the variables after the call and whether it
\* returned an error.
executeAssignment(vs, ts) ==
  LET assignee == ts[1].val
  IN IF ~isValidVarName(assignee) THEN [vars |-> vs, err |-> TRUE]
     ELSE [vars |-> (assignee :> expandAll(assignedWords(ts, 2, <<>>), vs, TRUE)) @@ vs,
           err |-> FALSE]

\* ------------------------------------------- assignments and references

\* Words and recipe texts are 1..MaxWord characters of WordChars.
MaxWord == 4

\* An assignment has up to MaxVals tokens after the '='.
MaxVals == 3

WordChars == {"$", "N", "a", "{", "}"}

Words == UNION {[1..n -> WordChars] : n \in 1..MaxWord}

\* The tokens  a b c a b c ...  up to MaxVals of them, and  a : b.
ValueTokens ==
  {[i \in 1..n |-> Token(tokenWord, <<<<"a">>, <<"b">>, <<"c">>>>[((i - 1) % 3) + 1], 1, 2 * i + 1)] :
     n \in 0..MaxVals}
  \cup {<<Token(tokenWord, <<"a">>, 1, 3), Token(tokenColon, <<":">>, 1, 4),
          Token(tokenWord, <<"b">>, 1, 5)>>}

\* The statements  N = ...  as parseAssignment hands them to
\* executeAssignment: the assignee and the tokens after the '='.
Assignments == {<<Token(tokenWord, <<"N">>, 1, 0)>> \o vs : vs \in ValueTokens}

\* main has read its flags and the mkfile is being parsed: there are no
\* rules and no graph yet.
MainParsing ==
  /\ rs = <<>>
  /\ existing = {}
  /\ gnodes = <<>>
  /\ buildpc = "idle"
  /\ chosen = <<>>
  /\ rulepeak = <<>>
  /\ graph = Chain
  /\ dryrun = FALSE
  /\ rebuildall = FALSE
  /\ rebuildtargets = {}
  /\ subprocsAllowed = 1
  /\ reliable = FALSE
  /\ run = 1
  /\ rune = NoRune
  /\ fs \in graph.workspaces
  /\ mainpc = "parse"
  /\ NewProcess

InitExpand ==
  /\ rsvars = <<>>
  /\ stmt = <<>>
  /\ call = NoCall
  /\ textpc = "start"
  /\ frames = <<>>
  /\ texts = <<>>
  /\ MainParsing

\* What the code that works on the text leaves alone: the graph under
\* construction and the scheduler.
laterVars ==
  <<existing, gnodes, buildpc, chosen, rulepeak, mainVars,
    graph, dryrun, rebuildall, rebuildtargets, subprocsAllowed, reliable, run, rune,
    fs, nodeVars, spawned, pc, localVars, slotVars, histVars>>

\* What the lexer and the expansion of a word leave alone: the rules, the
\* files and all of the above.
parseVars == <<rs, texts, laterVars>>

\* parseAssignment on the newline that ends  N = ...
ExecuteAssignment ==
  /\ textpc = "start"
  /\ \E ts \in Assignments :
       /\ stmt' = ts
       /\ rsvars' = executeAssignment(rsvars, ts).vars
  /\ textpc' = "assigned"
  /\ UNCHANGED <<call, frames, parseVars>>

\* A word of a later statement is expanded.
Expand ==
  /\ textpc \in {"start", "assigned"}
  /\ \E w \in Words : call' = [fn |-> "expand", input |-> w, out |-> expand(w, rsvars, TRUE)]
  /\ textpc' = "expanded"
  /\ UNCHANGED <<rsvars, stmt, frames, parseVars>>

\* The recipe of a later rule is expanded.
ExpandRecipeSigils ==
  /\ textpc \in {"start", "assigned"}
  /\ \E w \in Words :
       call' = [fn |-> "expandRecipeSigils", input |-> w, out |-> expandRecipeSigils(w, rsvars)]
  /\ textpc' = "expanded"
  /\ UNCHANGED <<rsvars, stmt, frames, parseVars>>

NextExpand ==
  \/ ExecuteAssignment
  \/ Expand
  \/ ExpandRecipeSigils

SpecExpand == InitExpand /\ [][NextExpand]_vars

\* The characters neither expander treats specially.
Plain(s) == \A k \in 1..Len(s) : s[k] \in {"N", "a", "}"}

\* C25: a word or recipe made of plain text, "$$" and plain text expands
\* to the first text, one '$' and the second text, nothing dropped.
C25_DollarDollar ==
  call.fn \in {"expand", "expandRecipeSigils"} =>
    \A k \in 1..(Len(call.input) - 1) :
      LET u == SubSeq(call.input, 1, k - 1)
          v == SubSeq(call.input, k + 2, Len(call.input))
          text == u \o <<"$">> \o v
      IN call.input[k] = "$" /\ call.input[k + 1] = "$" /\ Plain(u) /\ Plain(v) =>
           call.out = IF call.fn = "expand" THEN <<text>> ELSE text

\* The values of an assignment whose tokens after the '=' are all words.
ValuesOf(ts) == [i \in 1..(Len(ts) - 1) |-> ts[i + 1].val]

AllWords(ts) == \A i \in 2..Len(ts) : ts[i].typ = tokenWord

\* The two ways to refer to the variable the statement assigns.
RefersTo(w, ts) == w = <<"$">> \o ts[1].val \/ w = <<"$", "{">> \o ts[1].val \o <<"}">>

\* C24: after  NAME = v1 ... vn  a reference to NAME expands to the values
\* v1, ..., vn under expand and to the values joined by single spaces under
\* expandRecipeSigils.
C24_RoundTrip ==
  /\ stmt # <<>> /\ AllWords(stmt) => rsvars[stmt[1].val] = ValuesOf(stmt)
  /\ stmt # <<>> /\ AllWords(stmt) /\ call # NoCall /\ RefersTo(call.input, stmt) =>
       /\ call.fn = "expand" => call.out = ValuesOf(stmt)
       /\ call.fn = "expandRecipeSigils" => call.out = Join(ValuesOf(stmt), <<" ">>)

\* C24 witness: after  N = a b c  the recipe text $N has been expanded to
\* "a b c".
C24_Witness ==
  /\ stmt # <<>>
  /\ ValuesOf(stmt) = << <<"a">>, <<"b">>, <<"c">> >>
  /\ call = [fn |-> "expandRecipeSigils", input |-> <<"$", "N">>,
             out |-> <<"a", " ", "b", " ", "c">>]

\* ================================================================ lexer
\*
\* The lexer of rules.go.  A lexer is the record of `type lexer`, its field
\* output being the sequence of the tokens sent on the channel so far.

\* The rune the lexer returns at the end of its input.
eof == "\\000"

\* Runes that cannot be part of a bare (unquoted) string.
nonBareRunes == {" ", "\t", "\n", "\r", "\\", "=", ":", "#", "'", "\"", "$"}

\* onlyWhitespace(s): strings.IndexAny(s, " \t\r\n") < 0.
onlyWhitespace(s) == IndexAny(s, {" ", "\t", "\r", "\n"}) < 0

\* lex(input) and lexWords(input) before l.run().
NewLexer(input, bareWords) ==
  [input |-> input, output |-> <<>>, start |-> 0, startCol |-> 0, pos |-> 0,
   line |-> 1, col |-> 0, errMsg |-> "", indented |-> TRUE, bareWords |-> bareWords]

peekN(l, n) == IF l.pos + n < Len(l.input) THEN At(l.input, l.pos + n) ELSE eof

peek(l) == peekN(l, 0)

\* l.next(): the lexer after the call.
next(l) ==
  IF l.pos >= Len(l.input) THEN l
  ELSE LET c == At(l.input, l.pos)
       IN IF c = "\n"
          THEN [l EXCEPT !.pos = @ + 1, !.col = 0, !.line = @ + 1, !.indented = TRUE]
          ELSE [l EXCEPT !.pos = @ + 1, !.col = @ + 1,
                         !.indented = IF c \in {" ", "\t"} THEN @ ELSE FALSE]

skip(l) == LET l1 == next(l) IN [l1 EXCEPT !.start = l1.pos, !.startCol = l1.col]

emit(l, typ) ==
  [l EXCEPT !.output = Append(@, Token(typ, Slice(l.input, l.start, l.pos), l.line, l.startCol)),
            !.start = l.pos, !.startCol = 0]

lexError(l, what) == emit([l EXCEPT !.errMsg = IF @ = "" THEN what ELSE @], tokenError)

accept(l, valid) == IF peek(l) \in valid THEN next(l) ELSE l

RECURSIVE acceptRun(_, _), acceptUntilOrEof(_, _), skipRun(_, _), skipUntilLoop(_, _)

acceptRun(l, valid) == IF peek(l) \in valid THEN acceptRun(next(l), valid) ELSE l

acceptUntilOrEof(l, invalid) ==
  IF l.pos < Len(l.input) /\ peek(l) \notin invalid
  THEN acceptUntilOrEof(next(l), invalid)
  ELSE l

acceptUntil(l, invalid) ==
  LET l1 == acceptUntilOrEof(l, invalid)
  IN IF peek(l1) = eof THEN lexError(l1, "end of file encountered") ELSE l1

skipRun(l, valid) == IF peek(l) \in valid THEN skipRun(skip(l), valid) ELSE l

skipUntilLoop(l, invalid) ==
  IF l.pos < Len(l.input) /\ peek(l) \notin invalid
  THEN skipUntilLoop(skip(l), invalid)
  ELSE l

skipUntil(l, invalid) ==
  LET l1 == skipUntilLoop(l, invalid)
  IN IF peek(l1) = eof THEN lexError(l1, "end of file encountered") ELSE l1

\* What a state function returns: the lexer and the next state function,
\* "nil" when the lexer is to stop.
Goto(l, state) == [l |-> l, state |-> state]

\* The loop of lexTopLevel: the lexer after it, or the lexer with which
\* lexTopLevel returns nil in words-only mode.
RECURSIVE lexTopLevelLoop(_)
lexTopLevelLoop(l) ==
  LET l1 == skipRun(l, {" ", "\t", "\r"})
      ends == peek(l1) = "\n" /\ ~l1.indented
  IN IF ends /\ l1.bareWords THEN Goto(next(l1), "nil")
     ELSE
       LET l2 == IF ends THEN emit(next(l1), tokenNewline) ELSE l1
           l3 == skipRun(l2, {" ", "\t", "\r", "\n"})
       IN IF peek(l3) = "\\" /\ peekN(l3, 1) = "\n"
          THEN lexTopLevelLoop([next(next(l3)) EXCEPT !.indented = FALSE])
          ELSE Goto(l3, "lexTopLevel")

lexTopLevel(l) ==
  LET r == lexTopLevelLoop(l)
      c == peek(r.l)
  IN IF r.state = "nil" THEN r
     ELSE IF r.l.indented /\ r.l.col > 0 THEN Goto(r.l, "lexRecipe")
     ELSE Goto(r.l, CASE c = eof -> "nil"
                      [] c = "#" -> "lexComment"
                      [] c = "<" -> "lexInclude"
                      [] c = ":" -> "lexColon"
                      [] c = "=" -> "lexAssign"
                      [] c = "\"" -> "lexDoubleQuotedWord"
                      [] c = "'" -> "lexSingleQuotedWord"
                      [] c = Backquote -> "lexBackQuotedWord"
                      [] OTHER -> "lexBareWord")

lexColon(l) == Goto(emit(next(l), tokenColon), "lexTopLevel")

lexAssign(l) == Goto(emit(next(l), tokenAssign), "lexTopLevel")

lexComment(l) == Goto(skipUntil(skip(l), {"\n"}), "lexTopLevel")

lexInclude(l) ==
  LET l1 == next(l)
  IN IF peek(l1) = "|"
     THEN Goto(emit(next(l1), tokenPipeInclude), "lexTopLevel")
     ELSE Goto(emit(l1, tokenRedirInclude), "lexTopLevel")

\* The loop of lexRecipe; state "lexRecipe" is returned for the lexer with
\* which the loop makes no progress and does not break.
RECURSIVE lexRecipeLoop(_)
lexRecipeLoop(l) ==
  LET l1 == acceptRun(acceptUntilOrEof(l, {"\n"}), {" ", "\t", "\n", "\r"})
  IN IF ~l1.indented \/ l1.col = 0 THEN Goto(l1, "lexTopLevel")
     ELSE IF l1 = l THEN Goto(l, "lexRecipe")
     ELSE lexRecipeLoop(l1)

lexRecipe(l) ==
  LET r == lexRecipeLoop(l)
  IN IF r.state = "lexRecipe" THEN r
     ELSE IF ~onlyWhitespace(Slice(r.l.input, r.l.start, r.l.pos))
          THEN Goto(emit(r.l, tokenRecipe), "lexTopLevel")
          ELSE Goto(r.l, "lexTopLevel")

lexBareWord(l) ==
  LET l1 == acceptUntil(l, nonBareRunes)
      c == peek(l1)
      c1 == peekN(l1, 1)
  IN CASE c = "\"" -> Goto(l1, "lexDoubleQuotedWord")
       [] c = "'" -> Goto(l1, "lexSingleQuotedWord")
       [] c = Backquote -> Goto(l1, "lexBackQuotedWord")
       [] c = "\\" ->
            IF c1 \in {"\n", "\r"}
            THEN Goto(skip(skip(IF l1.start < l1.pos THEN emit(l1, tokenWord) ELSE l1)),
                      "lexTopLevel")
            ELSE Goto(next(next(l1)), "lexBareWord")
       [] c = "$" ->
            IF c1 = "{" THEN Goto(l1, "lexBracketExpansion") ELSE Goto(next(l1), "lexBareWord")
       [] OTHER ->
            Goto(IF l1.start < l1.pos THEN emit(l1, tokenWord) ELSE l1, "lexTopLevel")

\* The loop of lexDoubleQuotedWord.
RECURSIVE lexDoubleQuotedLoop(_)
lexDoubleQuotedLoop(l) ==
  IF peek(l) # "\"" /\ peek(l) # eof
  THEN LET l1 == acceptUntil(l, {"\\", "\""})
       IN lexDoubleQuotedLoop(IF peek(l1) = "\\" THEN accept(next(l1), {"\""}) ELSE l1)
  ELSE l

lexDoubleQuotedWord(l) ==
  LET l1 == lexDoubleQuotedLoop(next(l))
      l2 == IF peek(l1) = eof
            THEN lexError(l1, "end of file encountered while parsing a quoted string.")
            ELSE l1
  IN Goto(next(l2), "lexBareWord")

lexBackQuotedWord(l) == Goto(next(acceptUntil(next(l), {Backquote})), "lexBareWord")

lexSingleQuotedWord(l) == Goto(next(acceptUntil(next(l), {"'"})), "lexBareWord")

lexBracketExpansion(l) == Goto(next(acceptUntil(next(next(l)), {"}"})), "lexBareWord")

\* ------------------------------------------------------- the lexer runs

\* A call of parseInto(input, name, rules, path): its lexer l, the lexer's
\* next state function (state, "closed" once l.run has closed the channel),
\* the number of tokens received from the channel (read), the parser's
\* state function (pstate), p.tokenBuf, p.name and the local oldmkfiledir.
NewFrame(input, name, oldmkfiledir) ==
  [l |-> NewLexer(input, FALSE), state |-> "lexTopLevel", read |-> 0,
   pstate |-> "parseTopLevel", tokenBuf |-> <<>>, name |-> name,
   oldmkfiledir |-> oldmkfiledir]

Top == frames[Len(frames)]

SetTop(f) == [frames EXCEPT ![Len(frames)] = f]

\* The lexer's goroutine is about to call the state function named state:
\* every send before it has been received (the channel is unbuffered).
LexReady(state) ==
  /\ textpc = "parsing"
  /\ frames # <<>>
  /\ Top.state = state
  /\ Top.read = Len(Top.l.output)

\* l.run: state = state(l), r being what the state function returned.
Ran(r) == SetTop([Top EXCEPT !.l = r.l, !.state = r.state])

LexTopLevel ==
  /\ LexReady("lexTopLevel")
  /\ frames' = Ran(lexTopLevel(Top.l))
  /\ UNCHANGED <<rsvars, stmt, call, textpc, parseVars>>

LexColon ==
  /\ LexReady("lexColon")
  /\ frames' = Ran(lexColon(Top.l))
  /\ UNCHANGED <<rsvars, stmt, call, textpc, parseVars>>

LexAssign ==
  /\ LexReady("lexAssign")
  /\ frames' = Ran(lexAssign(Top.l))
  /\ UNCHANGED <<rsvars, stmt, call, textpc, parseVars>>

LexComment ==
  /\ LexReady("lexComment")
  /\ frames' = Ran(lexComment(Top.l))
  /\ UNCHANGED <<rsvars, stmt, call, textpc, parseVars>>

LexInclude ==
  /\ LexReady("lexInclude")
  /\ frames' = Ran(lexInclude(Top.l))
  /\ UNCHANGED <<rsvars, stmt, call, textpc, parseVars>>

\* In lexRecipe the call may never return: the step then changes nothing.
LexRecipe ==
  /\ LexReady("lexRecipe")
  /\ frames' = Ran(lexRecipe(Top.l))
  /\ UNCHANGED <<rsvars, stmt, call, textpc, parseVars>>

LexBareWord ==
  /\ LexReady("lexBareWord")
  /\ frames' = Ran(lexBareWord(Top.l))
  /\ UNCHANGED <<rsvars, stmt, call, textpc, parseVars>>

LexDoubleQuotedWord ==
  /\ LexReady("lexDoubleQuotedWord")
  /\ frames' = Ran(lexDoubleQuotedWord(Top.l))
  /\ UNCHANGED <<rsvars, stmt, call, textpc, parseVars>>

LexBackQuotedWord ==
  /\ LexReady("lexBackQuotedWord")
  /\ frames' = Ran(lexBackQuotedWord(Top.l))
  /\ UNCHANGED <<rsvars, stmt, call, textpc, parseVars>>

LexSingleQuotedWord ==
  /\ LexReady("lexSingleQuotedWord")
  /\ frames' = Ran(lexSingleQuotedWord(Top.l))
  /\ UNCHANGED <<rsvars, stmt, call, textpc, parseVars>>

LexBracketExpansion ==
  /\ LexReady("lexBracketExpansion")
  /\ frames' = Ran(lexBracketExpansion(Top.l))
  /\ UNCHANGED <<rsvars, stmt, call, textpc, parseVars>>

\* l.run: the state function returned nil; close(l.output).
LexClose ==
  /\ textpc = "parsing"
  /\ frames # <<>>
  /\ Top.state = "nil"
  /\ Top.read = Len(Top.l.output)
  /\ frames' = SetTop([Top EXCEPT !.state = "closed"])
  /\ UNCHANGED <<rsvars, stmt, call, textpc, parseVars>>

\* A reader of the channel other than the parser receives the next token.
Receive ==
  /\ textpc = "parsing"
  /\ frames # <<>>
  /\ Top.read < Len(Top.l.output)
  /\ frames' = SetTop([Top EXCEPT !.read = @ + 1])
  /\ UNCHANGED <<rsvars, stmt, call, textpc, parseVars>>

\* A text is 1..MaxLines lines, with or without the newline of the last.
MaxLines == 3

\* strings.Join of lines with "\n".
JoinLines(ls) == Join(ls, <<"\n">>)

TextsOf(lines) ==
  LET joined == {JoinLines(ls) : ls \in UNION {[1..n -> lines] : n \in 1..MaxLines}}
  IN joined \cup {s \o <<"\n">> : s \in joined}

\* The lines  t:   N=a   <tab>x   <space>x y   (empty)   <space>  and a
\* word of four quoted spans followed by a comment.
LexLines ==
  { <<"t", ":">>, <<"N", "=", "a">>, <<"\t", "x">>, <<" ", "x", " ", "y">>, <<>>, <<" ">>,
    <<Backquote, "c", Backquote, "'", "a", "'", "\"", "b", "\"", "$", "{", "d", "}", "#", "e">> }

\* lex(input) has been called and its tokens are read one by one.
InitLex ==
  /\ \E input \in TextsOf(LexLines) : frames = <<NewFrame(input, <<"mkfile">>, <<>>)>>
  /\ rsvars = <<>>
  /\ stmt = <<>>
  /\ call = NoCall
  /\ textpc = "parsing"
  /\ texts = <<>>
  /\ MainParsing

LexerStep ==
  \/ LexTopLevel
  \/ LexColon
  \/ LexAssign
  \/ LexComment
  \/ LexRecipe
  \/ LexBareWord
  \/ LexDoubleQuotedWord
  \/ LexBackQuotedWord
  \/ LexSingleQuotedWord
  \/ LexBracketExpansion

NextLex ==
  \/ LexerStep
  \/ LexClose
  \/ Receive

SpecLex == InitLex /\ [][NextLex]_vars

\* ---------------------------------------------------------------- C22

\* Offset p of text s begins a line.
LineStart(s, p) == p = 0 \/ s[p] = "\n"

\* A line begins at offset p in column 0 with a non-space character.
StatementStart(s, p) ==
  p < Len(s) /\ LineStart(s, p) /\ At(s, p) \notin {" ", "\t", "\r", "\n"}

\* Offset p holds the first character after the indentation of an indented
\* line.
IndentedStart(s, p) ==
  /\ p < Len(s)
  /\ At(s, p) \notin {" ", "\t", "\r", "\n"}
  /\ \E b \in 0..(p - 1) :
       LineStart(s, b) /\ \A k \in b..(p - 1) : At(s, k) \in {" ", "\t"}

\* An indented block begins at p: no statement line lies between p and an
\* indented line before it.
BlockStart(s, p) ==
  /\ IndentedStart(s, p)
  /\ \A q \in 0..(p - 1) :
       IndentedStart(s, q) => \E m \in (q + 1)..(p - 1) : StatementStart(s, m)

\* The block that begins at p ends where the next statement line begins, or
\* at the end of the text.
BlockEnd(s, p) ==
  CHOOSE e \in (p + 1)..Len(s) :
    /\ e = Len(s) \/ StatementStart(s, e)
    /\ \A m \in (p + 1)..(e - 1) : ~StatementStart(s, m)

\* The indented blocks of text s, in order.
Blocks(s) ==
  LET starts == SelectSeq([i \in 1..Len(s) |-> i - 1], LAMBDA p : BlockStart(s, p))
  IN [i \in 1..Len(starts) |-> Slice(s, starts[i], BlockEnd(s, starts[i]))]

RecipeTokens(output) == SelectSeq(output, LAMBDA tok : tok.typ = tokenRecipe)

\* C22: once the lexer has closed its channel, the Recipe tokens it sent
\* are the indented blocks of the input, one token per block in order, each
\* running from the block's first indented line to the next line that
\* begins in column 0 with a non-space character or to the end of the
\* input; and the token after a Recipe token is the first word of the
\* statement on that line.
C22_RecipeToken ==
  (frames # <<>> /\ Top.state = "closed") =>
    LET output == Top.l.output
        recipes == RecipeTokens(output)
    IN /\ [i \in 1..Len(recipes) |-> recipes[i].val] = Blocks(Top.l.input)
       /\ \A i \in 1..(Len(output) - 1) :
            output[i].typ = tokenRecipe => output[i + 1].typ = tokenWord

\* ------------------------------------------------------------ the parser

\* The name of the variable that parseInto binds.
mkfiledir == <<"m", "k", "f", "i", "l", "e", "d", "i", "r">>

\* The directory mk runs in.
Cwd == <<"/", "w">>

\* filepath.Abs(filename) for a clean name.
Abs(filename) ==
  IF filename # <<>> /\ filename[1] = "/" THEN filename ELSE Cwd \o <<"/">> \o filename

\* filepath.Dir(path) for a clean absolute path.
Dir(path) ==
  LET last == CHOOSE k \in 1..Len(path) :
                path[k] = "/" /\ \A m \in (k + 1)..Len(path) : path[m] # "/"
  IN IF last = 1 THEN <<"/">> ELSE SubSeq(path, 1, last - 1)

\* stripIndentation: its inner loop on one line, then the rest of the line.
RECURSIVE stripLine(_, _, _)
stripLine(line, minCol, i) ==
  IF i < Len(line) /\ i < minCol /\ At(line, i) \in {" ", "\t", "\n"}
  THEN stripLine(line, minCol, i + 1)
  ELSE Slice(line, i, Len(line))

RECURSIVE stripIndentation(_, _)
stripIndentation(s, minCol) ==
  LET nl == IndexAny(s, {"\n"})
  IN IF nl < 0 THEN stripLine(s, minCol, 0)
     ELSE stripLine(Slice(s, 0, nl + 1), minCol, 0)
            \o stripIndentation(Slice(s, nl + 1, Len(s)), minCol)

\* The attributes of a rule that the rule records of this model keep.
NoAttribs == [virtual |-> FALSE, shell |-> <<>>]

\* r.parseAttribs(inputs) from character pos of word i on: the attributes
\* and whether an attribError is returned.
RECURSIVE parseAttribsFrom(_, _, _, _)
parseAttribsFrom(r, inputs, i, pos) ==
  IF i > Len(inputs) THEN [r |-> r, err |-> FALSE]
  ELSE IF pos >= Len(inputs[i]) THEN parseAttribsFrom(r, inputs, i + 1, 0)
  ELSE LET input == inputs[i]
           c == At(input, pos)
           rest == (IF pos + 1 < Len(input) THEN <<Slice(input, pos + 1, Len(input))>> ELSE <<>>)
                     \o SubSeq(inputs, i + 1, Len(inputs))
       IN CASE c = "V" -> parseAttribsFrom([r EXCEPT !.virtual = TRUE], inputs, i, pos + 1)
            [] c \in {"D", "E", "N", "n", "Q", "R", "U", "X"} ->
                 parseAttribsFrom(r, inputs, i, pos + 1)
            [] c = "S" -> [r |-> [r EXCEPT !.shell = @ \o rest], err |-> FALSE]
            [] c = "P" -> [r |-> r, err |-> FALSE]
            [] OTHER -> [r |-> r, err |-> TRUE]

parseAttribs(inputs) == parseAttribsFrom(NoAttribs, inputs, 1, 0)

\* The parser p as a state function sees it: p.tokenBuf, p.rules.vars and
\* p.rules.rules, whether mkError has been called (exit), and the file that
\* parseRedirInclude hands to parseInto (include, <<>> for none).
NewParser(tokenBuf, vs, rules) ==
  [tokenBuf |-> tokenBuf, vars |-> vs, rules |-> rules, exit |-> FALSE, include |-> <<>>]

\* p.parseError, p.basicErrorAtToken and p.basicErrorAtLine all end in
\* mkError, which ends the process.
parseError(p) == [p EXCEPT !.exit = TRUE]

push(p, tok) == [p EXCEPT !.tokenBuf = Append(@, tok)]

clear(p) == [p EXCEPT !.tokenBuf = <<>>]

\* What a parser state function returns: the parser and the next state
\* function.
Then(p, state) == [p |-> p, state |-> state]

\* parseAssignmentOrTarget is the tokenWord case.
parseTopLevel(p, tok) ==
  CASE tok.typ = tokenNewline -> Then(p, "parseTopLevel")
    [] tok.typ = tokenPipeInclude -> Then(p, "parsePipeInclude")
    [] tok.typ = tokenRedirInclude -> Then(p, "parseRedirInclude")
    [] tok.typ = tokenWord -> Then(push(p, tok), "parseEqualsOrTarget")
    [] OTHER -> Then(parseError(p), "parseTopLevel")

\* On the newline the name of the file is put together and expanded; the
\* file is opened and parsed where the state function is applied.
parseRedirInclude(p, tok) ==
  CASE tok.typ = tokenNewline ->
         LET filename == Join([k \in 1..Len(p.tokenBuf) |-> p.tokenBuf[k].val], <<>>)
             expanded == expand(filename, p.vars, FALSE)
         IN Then([p EXCEPT !.include = IF Len(expanded) > 0 THEN <<expanded[1]>> ELSE <<filename>>],
                 "parseTopLevel")
    [] tok.typ = tokenWord -> Then(push(p, tok), "parseRedirInclude")
    [] OTHER -> Then(parseError(p), "parseRedirInclude")

parseEqualsOrTarget(p, tok) ==
  CASE tok.typ = tokenAssign -> Then(p, "parseAssignment")
    [] tok.typ = tokenWord -> Then(push(p, tok), "parseTargets")
    [] tok.typ = tokenColon -> Then(push(p, tok), "parseAttributesOrPrereqs")
    [] OTHER -> Then(parseError(p), "parseTopLevel")

parseAssignment(p, tok) ==
  IF tok.typ = tokenNewline
  THEN LET done == executeAssignment(p.vars, p.tokenBuf)
       IN IF done.err THEN Then(parseError(p), "parseTopLevel")
          ELSE Then(clear([p EXCEPT !.vars = done.vars]), "parseTopLevel")
  ELSE Then(push(p, tok), "parseAssignment")

parseTargets(p, tok) ==
  CASE tok.typ = tokenWord -> Then(push(p, tok), "parseTargets")
    [] tok.typ = tokenColon -> Then(push(p, tok), "parseAttributesOrPrereqs")
    [] OTHER -> Then(parseError(p), "parseTargets")

parseAttributesOrPrereqs(p, tok) ==
  CASE tok.typ = tokenNewline -> Then(p, "parseRecipe")
    [] tok.typ = tokenColon -> Then(push(p, tok), "parsePrereqs")
    [] tok.typ = tokenWord -> Then(push(p, tok), "parseAttributesOrPrereqs")
    [] OTHER -> Then(parseError(p), "parseAttributesOrPrereqs")

parsePrereqs(p, tok) ==
  CASE tok.typ = tokenNewline -> Then(p, "parseRecipe")
    [] tok.typ = tokenWord -> Then(push(p, tok), "parsePrereqs")
    [] OTHER -> Then(parseError(p), "parsePrereqs")

\* The loops of parseRecipe that look for a colon from index k on.
RECURSIVE colonFrom(_, _)
colonFrom(buf, k) ==
  IF k < Len(buf) /\ buf[k + 1].typ # tokenColon THEN colonFrom(buf, k + 1) ELSE k

\* The values of the tokens buf[from], ..., buf[to - 1] (indices from 0).
ValsOf(buf, from, to) == [k \in 1..(to - from) |-> buf[from + k].val]

parseRecipe(p, tok) ==
  LET buf == p.tokenBuf
      i == colonFrom(buf, 0)
      j0 == colonFrom(buf, i + 1)
      hasAttribs == j0 < Len(buf)
      j == IF hasAttribs THEN j0 ELSE i
      attribs == IF hasAttribs
                 THEN parseAttribs(expandAll(ValsOf(buf, i + 1, j0), p.vars, TRUE))
                 ELSE [r |-> NoAttribs, err |-> FALSE]
      r == [targets |-> expandAll(ValsOf(buf, 0, i), p.vars, TRUE),
            prereqs |-> expandAll(ValsOf(buf, j + 1, Len(buf)), p.vars, TRUE),
            recipe |-> IF tok.typ = tokenRecipe
                       THEN expandRecipeSigils(stripIndentation(tok.val, tok.col), p.vars)
                       ELSE "",
            shell |-> attribs.r.shell,
            virtual |-> attribs.r.virtual]
      added == clear([p EXCEPT !.rules = add(@, r)])
  IN IF attribs.err THEN Then(parseError(p), "parseTopLevel")
     ELSE IF tok.typ # tokenRecipe THEN parseTopLevel(added, tok)
     ELSE Then(added, "parseTopLevel")

\* state(p, tok) for the state function named state.
parseState(state, p, tok) ==
  CASE state = "parseTopLevel" -> parseTopLevel(p, tok)
    [] state = "parseRedirInclude" -> parseRedirInclude(p, tok)
    [] state = "parseEqualsOrTarget" -> parseEqualsOrTarget(p, tok)
    [] state = "parseAssignment" -> parseAssignment(p, tok)
    [] state = "parseTargets" -> parseTargets(p, tok)
    [] state = "parseAttributesOrPrereqs" -> parseAttributesOrPrereqs(p, tok)
    [] state = "parsePrereqs" -> parsePrereqs(p, tok)
    [] state = "parseRecipe" -> parseRecipe(p, tok)

\* ------------------------------------------------------ the parser runs

\* The loop of parseInto has received a token that is not an error and is
\* about to call the state function named state.
ParseReady(state) ==
  /\ textpc = "parsing"
  /\ frames # <<>>
  /\ Top.pstate = state
  /\ Top.read < Len(Top.l.output)
  /\ Top.l.output[Top.read + 1].typ # tokenError

NextToken == Top.l.output[Top.read + 1]

Parser == NewParser(Top.tokenBuf, rsvars, rs)

\* vars["mkfiledir"] as parseInto reads it: nil when there is no binding.
Binding(vs) == IF mkfiledir \in DOMAIN vs THEN vs[mkfiledir] ELSE <<>>

\* parseInto: state = state(p, t), r being what the state function returned.
\* mkError ends the process, and so does a file that cannot be opened; a
\* file that can is parsed by a new call of parseInto before the state
\* function returns.
Parsed(r) ==
  LET f == [Top EXCEPT !.read = @ + 1, !.pstate = r.state, !.tokenBuf = r.p.tokenBuf]
      opened == r.p.include # <<>> /\ r.p.include[1] \in DOMAIN texts
  IN /\ rs' = r.p.rules
     /\ textpc' = IF r.p.exit \/ (r.p.include # <<>> /\ ~opened) THEN "exit" ELSE textpc
     /\ frames' = IF ~r.p.exit /\ opened
                  THEN Append(SetTop(f), NewFrame(texts[r.p.include[1]], r.p.include[1],
                                                  Binding(r.p.vars)))
                  ELSE SetTop(f)
     /\ rsvars' = IF ~r.p.exit /\ opened
                  THEN (mkfiledir :> <<Dir(Abs(r.p.include[1]))>>) @@ r.p.vars
                  ELSE r.p.vars

ParseTopLevel ==
  /\ ParseReady("parseTopLevel")
  /\ Parsed(parseTopLevel(Parser, NextToken))
  /\ UNCHANGED <<stmt, call, texts, laterVars>>

ParseRedirInclude ==
  /\ ParseReady("parseRedirInclude")
  /\ Parsed(parseRedirInclude(Parser, NextToken))
  /\ UNCHANGED <<stmt, call, texts, laterVars>>

ParseEqualsOrTarget ==
  /\ ParseReady("parseEqualsOrTarget")
  /\ Parsed(parseEqualsOrTarget(Parser, NextToken))
  /\ UNCHANGED <<stmt, call, texts, laterVars>>

ParseAssignment ==
  /\ ParseReady("parseAssignment")
  /\ Parsed(parseAssignment(Parser, NextToken))
  /\ UNCHANGED <<stmt, call, texts, laterVars>>

ParseTargets ==
  /\ ParseReady("parseTargets")
  /\ Parsed(parseTargets(Parser, NextToken))
  /\ UNCHANGED <<stmt, call, texts, laterVars>>

ParseAttributesOrPrereqs ==
  /\ ParseReady("parseAttributesOrPrereqs")
  /\ Parsed(parseAttributesOrPrereqs(Parser, NextToken))
  /\ UNCHANGED <<stmt, call, texts, laterVars>>

ParsePrereqs ==
  /\ ParseReady("parsePrereqs")
  /\ Parsed(parsePrereqs(Parser, NextToken))
  /\ UNCHANGED <<stmt, call, texts, laterVars>>

ParseRecipe ==
  /\ ParseReady("parseRecipe")
  /\ Parsed(parseRecipe(Parser, NextToken))
  /\ UNCHANGED <<stmt, call, texts, laterVars>>

\* parseInto receives an error token: p.basicErrorAtLine(l.errMsg, t.line).
ParseIntoError ==
  /\ textpc = "parsing"
  /\ frames # <<>>
  /\ Top.read < Len(Top.l.output)
  /\ NextToken.typ = tokenError
  /\ frames' = SetTop([Top EXCEPT !.read = @ + 1])
  /\ textpc' = "exit"
  /\ UNCHANGED <<rs, rsvars, stmt, call, texts, laterVars>>

\* The end of parseInto, r being what the state function returned for the
\* dummy newline: parseInto binds mkfiledir to oldmkfiledir and returns, to
\* parse (the mkfile is parsed) or to parseRedirInclude, which clears the
\* token buffer and returns to the loop of the including file.  No file has
\* the empty name, the only one an include on the dummy newline can ask for.
Leaves(r) ==
  LET failed == r.p.exit \/ r.p.include # <<>>
      outer == SubSeq(frames, 1, Len(frames) - 1)
  IN /\ rs' = r.p.rules
     /\ rsvars' = IF failed THEN r.p.vars ELSE (mkfiledir :> Top.oldmkfiledir) @@ r.p.vars
     /\ frames' = IF failed THEN frames
                  ELSE IF outer = <<>> THEN outer
                  ELSE [outer EXCEPT ![Len(outer)].tokenBuf = <<>>]
     /\ textpc' = IF failed THEN "exit"
                  ELSE IF outer = <<>> THEN "parsed" ELSE textpc

\* The channel is closed and the loop of parseInto is over.
ParseIntoReturn ==
  /\ textpc = "parsing"
  /\ frames # <<>>
  /\ Top.state = "closed"
  /\ Top.read = Len(Top.l.output)
  /\ Leaves(parseState(Top.pstate, Parser,
                       Token(tokenNewline, <<"\n">>, Top.l.line, Top.l.col)))
  /\ UNCHANGED <<stmt, call, texts, laterVars>>

\* An mkfile is 1..MaxStatements lines, with or without the newline of the
\* last.
MaxStatements == 3

\* The lines  t:   N=a   mkfiledir=a   <i   <tab>x  and a rule with two
\* targets, an attribute, a prerequisite of four quoted spans and a comment.
ParseLines ==
  { <<"t", ":">>, <<"N", "=", "a">>, mkfiledir \o <<"=", "a">>, <<"<", "i">>, <<"\t", "x">>,
    <<"u", " ", "y", ":", "V", ":", " ", Backquote, "c", Backquote, "'", "a", "'",
      "\"", "b", "\"", "$", "{", "N", "}", "#", "e">> }

Mkfile ==
  LET joined == {JoinLines(ls) : ls \in UNION {[1..n -> ParseLines] : n \in 1..MaxStatements}}
  IN joined \cup {s \o <<"\n">> : s \in joined}

\* The file i that an mkfile includes:  v: / N=b  with its last newline, or
\* N=b / v:  without.
Included ==
  { <<"v", ":", "\n", "N", "=", "b", "\n">>, <<"N", "=", "b", "\n", "v", ":">> }

\* The name of the file that main reads.
MkfileName == <<"m", "k", "f", "i", "l", "e">>

\* parse(input, name, path, env) has called parseInto, which has made the
\* lexer and bound mkfiledir; the environment holds no variable.
InitParse ==
  /\ \E input \in Mkfile, text \in Included :
       texts = (MkfileName :> input) @@ (<<"i">> :> text)
  /\ frames = <<NewFrame(texts[MkfileName], MkfileName, <<>>)>>
  /\ rsvars = (mkfiledir :> <<Dir(Abs(MkfileName))>>)
  /\ stmt = <<>>
  /\ call = NoCall
  /\ textpc = "parsing"
  /\ MainParsing

NextParse ==
  \/ LexerStep
  \/ LexInclude
  \/ LexClose
  \/ ParseTopLevel
  \/ ParseRedirInclude
  \/ ParseEqualsOrTarget
  \/ ParseAssignment
  \/ ParseTargets
  \/ ParseAttributesOrPrereqs
  \/ ParsePrereqs
  \/ ParseRecipe
  \/ ParseIntoError
  \/ ParseIntoReturn

SpecParse == InitParse /\ [][NextParse]_vars

\* ---------------------------------------------------------------- C23

\* The lines of text s.
RECURSIVE SplitLines(_)
SplitLines(s) ==
  LET nl == IndexAny(s, {"\n"})
  IN IF nl < 0 THEN <<s>>
     ELSE <<Slice(s, 0, nl)>> \o SplitLines(Slice(s, nl + 1, Len(s)))

\* The words of s, which blanks separate.
RECURSIVE SplitWords(_)
SplitWords(s) ==
  LET sp == IndexAny(s, {" "})
  IN IF s = <<>> THEN <<>>
     ELSE IF sp < 0 THEN <<s>>
     ELSE IF sp = 0 THEN SplitWords(Tail(s))
     ELSE <<Slice(s, 0, sp)>> \o SplitWords(Slice(s, sp + 1, Len(s)))

\* The lines of the source in the order mk reads them: an include
\* directive stands for the lines of the file it names.
RECURSIVE Source(_)
Source(ls) ==
  IF ls = <<>> THEN <<>>
  ELSE (IF ls[1] # <<>> /\ ls[1][1] = "<"
        THEN SplitLines(texts[Tail(ls[1])])
        ELSE <<ls[1]>>) \o Source(Tail(ls))

SourceLines == Source(SplitLines(texts[MkfileName]))

IsAssignment(line) ==
  line # <<>> /\ line[1] \in Letters /\ IndexAny(line, {"="}) >= 0

IsRule(line) ==
  line # <<>> /\ line[1] \in Letters /\ IndexAny(line, {"="}) < 0
    /\ IndexAny(line, {":"}) >= 0

\* The target lists of the rule statements of the source, in order.
SourceTargets ==
  LET rules == SelectSeq(SourceLines, IsRule)
  IN [k \in 1..Len(rules) |-> SplitWords(Slice(rules[k], 0, IndexAny(rules[k], {":"})))]

\* The names the source assigns to.
SourceNames ==
  {Slice(SourceLines[k], 0, IndexAny(SourceLines[k], {"="})) :
     k \in {m \in 1..Len(SourceLines) : IsAssignment(SourceLines[m])}}

\* The words of the last assignment of the source to name.
LastAssigned(name) ==
  LET to == SelectSeq(SourceLines,
                      LAMBDA line : IsAssignment(line)
                                      /\ Slice(line, 0, IndexAny(line, {"="})) = name)
      last == to[Len(to)]
  IN SplitWords(Slice(last, IndexAny(last, {"="}) + 1, Len(last)))

\* Sequence a is b with some of its elements left out.
RECURSIVE IsSubsequence(_, _)
IsSubsequence(a, b) ==
  IF a = <<>> THEN TRUE
  ELSE IF b = <<>> THEN FALSE
  ELSE IF a[1] = b[1] THEN IsSubsequence(Tail(a), Tail(b))
  ELSE IsSubsequence(a, Tail(b))

\* Every file of the source ends with a newline.
NewlineEnded ==
  \A name \in DOMAIN texts :
    texts[name] # <<>> /\ texts[name][Len(texts[name])] = "\n"

\* The rules of the rule set are those of the source, in its order.
InSourceOrder ==
  LET targets == [k \in 1..Len(rs) |-> rs[k].targets]
  IN /\ IsSubsequence(targets, SourceTargets)
     /\ NewlineEnded => targets = SourceTargets

BoundToLast(name) == name \in DOMAIN rsvars /\ rsvars[name] = LastAssigned(name)

\* C23 as stated: after a parse the rules are in source order (those of an
\* include at the place of the directive) and every variable the source
\* assigns to is bound to the value of its last assignment.
C23_SourceOrder ==
  textpc = "parsed" => InSourceOrder /\ \A name \in SourceNames : BoundToLast(name)

\* C23 amended: after a parse the rules are in source order (those of an
\* include at the place of the directive) and every variable the source
\* assigns to, other than mkfiledir, is bound to the value of its last
\* assignment; mkfiledir is bound to what it was bound to before the parse.
C23_SourceOrderButMkfiledir ==
  textpc = "parsed" =>
    /\ InSourceOrder
    /\ \A name \in SourceNames \ {mkfiledir} : BoundToLast(name)
    /\ rsvars[mkfiledir] = <<>>

\* A parse of an mkfile with a rule of its own and an include that brings a
\* rule and a second assignment to a variable of the mkfile.
C23_Witness ==
  /\ textpc = "parsed"
  /\ \E k, m \in 1..Len(rs) : rs[k].targets = << <<"v">> >> /\ rs[m].targets = << <<"t">> >>
  /\ \E k, m \in 1..Len(SourceLines) :
       /\ k < m
       /\ SourceLines[k] = <<"N", "=", "a">>
       /\ SourceLines[m] = <<"N", "=", "b">>

\* ---------------------------------------------------------------- C31

\* The number of edges of the graph with tail u: every one of them is
\* walked by the vacuity pass, so this is the number of calls vacuous(u).
Visits(nodes, u) ==
  Cardinality(UNION {{<<w, i>> : i \in {j \in 1..Len(nodes[w].prereqs) : nodes[w].prereqs[j].v = u}} :
                       w \in DOMAIN nodes})

\* C31: for a node that the vacuity pass visits more than once, the value
\* the first call vacuous(u) returns (the node is flagged Vacuous after the
\* pass exactly when that value is true) is the value every later call
\* returns (true exactly when the node has no Probable mark).
C31_VerdictStable ==
  [][buildpc = "vacuous" =>
       \A u \in DOMAIN gnodes :
         Visits(gnodes, u) >= 2 =>
           (nodeFlagVacuous \in gnodes'[u].flags <=> nodeFlagProbable \notin gnodes[u].flags)]_vars

\* ---------------------------------------------------------------------
\* The captures of the edges graph construction makes.

\* The edges of u that rule k's target pattern j accounts for: those of
\* rule k whose stem is capture group 1 of the pattern matched against u.
CapturedBy(nodes, u, k, j) ==
  LET m == match(CompilePattern(rs[k].targets[j]), u)
  IN {i \in 1..Len(nodes[u].prereqs) :
        /\ nodes[u].prereqs[i].r = k
        /\ ~m.nil
        /\ Len(m.mat) >= 2
        /\ nodes[u].prereqs[i].stem = m.mat[2]}

\* C32: graph construction returns for every rule set, an edge of a
\* concrete rule has an empty stem, an edge of a suffix meta-rule has the
\* stem that is capture group 1 of one of the rule's target patterns matched
\* against the node, and every target pattern of a meta-rule, a plain name
\* next to a % pattern included, is handled without ending the process.
C32_CaptureContract ==
  /\ buildpc # "panic"
  /\ \A u \in DOMAIN gnodes : \A i \in 1..Len(gnodes[u].prereqs) :
       LET e == gnodes[u].prereqs[i]
       IN IF isMeta(rs[e.r])
          THEN \E j \in 1..Len(rs[e.r].targets) : i \in CapturedBy(gnodes, u, e.r, j)
          ELSE e.stem = <<>>

\* ---------------------------------------------------------------------
\* Fair scheduling of the workers' slot steps.

\* The steps of the worker of n between its request for a slot and the
\* release of the slot: reserveSubproc or reserveExclusiveSubproc with its
\* wake-ups, the recipe's end, and finishSubproc or finishExclusiveSubproc.
SlotStep(n) ==
  \/ ReserveSubproc(n)
  \/ ReserveExclusiveSubproc(n)
  \/ StealSubprocs(n)
  \/ Dorecipe(n)
  \/ DorecipeExclusive(n)

\* The Go scheduler runs every goroutine that can run, sync.Mutex hands the
\* lock to a waiting goroutine, and every recipe's process ends.
Fairness == \A n \in Nodes : WF_vars(SlotStep(n))

SpecFair == Init /\ [][Next]_vars /\ Fairness

\* The worker of n has asked for a slot and does not have it yet.
Requesting(n) == pc[n] \in {"reserve", "condwait", "woken"}

SharedExecuting == {n \in Nodes : pc[n] = "recipe" /\ n \notin graph.exclusive}

\* C34: the counter stays within 0..subprocsAllowed and is never below the
\* number of shared recipes that are executing.
C34_CounterBounds ==
  /\ 0 <= subprocsRunning
  /\ subprocsRunning <= subprocsAllowed
  /\ Cardinality(SharedExecuting) <= subprocsRunning

\* A shared recipe starts after an exclusive recipe has reset the counter.
C34_Witness ==
  /\ SharedExecuting # {}
  /\ \E m \in graph.exclusive : ndorecipe[m] > 0 /\ pc[m] # "recipe"
  /\ subprocsRunning = Cardinality(SharedExecuting)

\* ---------------------------------------------------------------------
\* Termination of the lexer.

\* Texts with a rule, an assignment, quoted words and a comment, and recipe
\* blocks that end the input, are followed by a line, or are followed at the
\* end of the input by a line of indentation only.
CallTexts ==
  { <<"t", ":", "\n", "\t", "x", "\n">>,
    <<"t", ":", "\n", "\t", "x">>,
    <<"t", ":", "\n", "\t", "x", "\n", "N", "=", "a", "\n">>,
    <<"t", ":", "\n", "\t", "x", "\n", " ", "\n">>,
    <<"t", ":", "\n", "\t", "x", "\n", " ">>,
    <<"\t", "x", "\n", "\t">>,
    <<Backquote, "c", Backquote, "'", "a", "'", "\"", "b", "\"", "$", "{", "d", "}", "#", "e", "\n">> }

\* No lexer has been started.
InitCall ==
  /\ frames = <<>>
  /\ rsvars = <<>>
  /\ stmt = <<>>
  /\ call = NoCall
  /\ textpc = "parsing"
  /\ texts = <<>>
  /\ MainParsing

\* lex(input) or lexWords(input): the lexer is made and its goroutine
\* started.
StartLexer ==
  /\ textpc = "parsing"
  /\ frames = <<>>
  /\ \E input \in CallTexts, bareWords \in BOOLEAN :
       frames' = <<[NewFrame(input, <<"mkfile">>, <<>>)
                      EXCEPT !.l = NewLexer(input, bareWords)]>>
  /\ UNCHANGED <<rsvars, stmt, call, textpc, parseVars>>

NextCall ==
  \/ StartLexer
  \/ NextLex

\* The lexer's goroutine and the reader of its channel run whenever they can.
SpecLexFair == InitCall /\ [][NextCall]_vars /\ WF_vars(NextCall)

\* C35: on every finite input, in full and in words-only mode, l.run
\* returns: the output channel is closed.
C35_LexerTerminates == <>(frames # <<>> /\ Top.state = "closed")

\* ---------------------------------------------------------------------
\* The last statement of an input without a final newline.

\* The lines of the mkfile main reads.
MkfileLines == SplitLines(texts[MkfileName])

\* The mkfile includes no file, and each of its recipe lines follows the
\* header of a rule or another recipe line.
IsRecipeLine(line) == line # <<>> /\ line[1] = "\t"

WellFormed ==
  \A k \in 1..Len(MkfileLines) :
    /\ MkfileLines[k] = <<>> \/ MkfileLines[k][1] # "<"
    /\ IsRecipeLine(MkfileLines[k]) =>
         k > 1 /\ (IsRule(MkfileLines[k - 1]) \/ IsRecipeLine(MkfileLines[k - 1]))

\* The mkfile's last line is an assignment or the header of a rule that has
\* no recipe, and no newline follows it.
OpenEnded ==
  LET last == MkfileLines[Len(MkfileLines)]
  IN WellFormed /\ (IsAssignment(last) \/ IsRule(last))

\* The same, with the newline.
ClosedEnded ==
  LET n == Len(MkfileLines)
  IN /\ WellFormed
     /\ n > 1
     /\ MkfileLines[n] = <<>>
     /\ IsAssignment(MkfileLines[n - 1]) \/ IsRule(MkfileLines[n - 1])

\* parseInto has returned or ended the process.
ParseOver == textpc \in {"parsed", "exit"}

\* Every statement of the source has taken effect.
Completed ==
  /\ textpc = "parsed"
  /\ [k \in 1..Len(rs) |-> rs[k].targets] = SourceTargets
  /\ \A name \in SourceNames \ {mkfiledir} : BoundToLast(name)

\* C36: an assignment or a rule without recipe that ends the input without
\* a newline is parsed and takes effect, as it does when a newline follows.
C36_FinalStatement == ParseOver /\ OpenEnded => Completed

\* With the newline every statement takes effect.
WithNewlineCompleted == ParseOver /\ ClosedEnded => Completed

\* ---------------------------------------------------------------------
\* mkfiledir around a file.

\* The variables other than mkfiledir, with their values.
Others(vs) == [name \in DOMAIN vs \ {mkfiledir} |-> vs[name]]

\* What the state function of the synthetic newline leaves.
AfterNewline ==
  parseState(Top.pstate, Parser, Token(tokenNewline, <<"\n">>, Top.l.line, Top.l.col))

\* C37: a file that is entered binds mkfiledir to its directory and changes
\* no other variable; when parseInto returns, mkfiledir is bound to the
\* value list it had before the call, or unbound if it was unbound (as it is
\* before main's call, the environment holding no mkfiledir), and no other
\* variable is changed.
C37_MkfiledirScope ==
  [][/\ Len(frames') > Len(frames) =>
          /\ rsvars'[mkfiledir] = <<Dir(Abs(frames'[Len(frames')].name))>>
          /\ Others(rsvars') = Others(rsvars)
     /\ Len(frames') < Len(frames) =>
          /\ Others(rsvars') = Others(AfterNewline.p.vars)
          /\ IF Len(frames) > 1
             THEN mkfiledir \in DOMAIN rsvars' /\ rsvars'[mkfiledir] = Top.oldmkfiledir
             ELSE mkfiledir \notin DOMAIN rsvars']_vars

\* ---------------------------------------------------------------------
\* The targets of the rules the parser adds.

\* Mkfiles in which N is assigned no value, or the value a, or nothing, and
\* a rule with a recipe has the reference $N as its only target word.
ReferenceMkfiles ==
  { <<"N", "=", "\n", "$", "N", ":", "\n", "\t", "x", "\n">>,
    <<"N", "=", "a", "\n", "$", "N", ":", "\n", "\t", "x", "\n">>,
    <<"$", "N", ":", "\n", "\t", "x", "\n">> }

\* parse(input, name, path, env) has called parseInto for one of the
\* mkfiles above or one of those of InitParse.
InitReference ==
  /\ \E input \in Mkfile \cup ReferenceMkfiles, text \in Included :
       texts = (MkfileName :> input) @@ (<<"i">> :> text)
  /\ frames = <<NewFrame(texts[MkfileName], MkfileName, <<>>)>>
  /\ rsvars = (mkfiledir :> <<Dir(Abs(MkfileName))>>)
  /\ stmt = <<>>
  /\ call = NoCall
  /\ textpc = "parsing"
  /\ MainParsing

SpecReference == InitReference /\ [][NextParse]_vars

\* C38: every rule of the rule set has at least one target pattern.
C38_NonEmptyTargets == \A k \in 1..Len(rs) : Len(rs[k].targets) >= 1

\* ---------------------------------------------------------------------
\* expandSuffixes on its own.

\* A template has up to MaxTemplate characters.
MaxTemplate == 4

Templates == UNION {[1..n -> {"%", "\\", "a"}] : n \in 1..MaxTemplate}

Stems == {<<"s">>, <<"s", "t">>}

\* applyrules expands the prerequisite template of a meta-rule with the
\* stem of the target (recipe.go line 513).
ExpandSuffixes ==
  /\ textpc = "start"
  /\ \E input \in Templates, stem \in Stems :
       LET r == expandSuffixes(input, stem)
       IN call' = [fn |-> "expandSuffixes", input |-> input, stem |-> stem,
                   end |-> r.end, out |-> r.out]
  /\ textpc' = "expanded"
  /\ UNCHANGED <<rsvars, stmt, frames, parseVars>>

SpecSuffixes == InitExpand /\ [][ExpandSuffixes]_vars

\* The template with every unescaped % replaced by the stem and every \%
\* by %, all other characters as they are.
RECURSIVE Substituted(_, _)
Substituted(input, stem) ==
  IF input = <<>> THEN <<>>
  ELSE IF input[1] = "%" THEN stem \o Substituted(Tail(input), stem)
  ELSE IF input[1] = "\\" /\ Len(input) > 1 /\ input[2] = "%"
       THEN <<"%">> \o Substituted(Tail(Tail(input)), stem)
  ELSE <<input[1]>> \o Substituted(Tail(input), stem)

\* C39: expandSuffixes returns for every template, and what it returns is
\* the template with every unescaped % replaced by the stem and every \% by
\* %.
C39_Substitution ==
  call.fn = "expandSuffixes" =>
    call.end = "return" /\ call.out = Substituted(call.input, call.stem)

\* ---------------------------------------------------------------------
\* Words with a double-quoted span.

\* A word with quotes has up to MaxQuoted characters.
MaxQuoted == 6

QuotedWords == UNION {[1..n -> {"\"", "a", "$", "N"}] : n \in 1..MaxQuoted}

\* A word of a later statement, with quotes, is expanded.
ExpandQuoted ==
  /\ textpc \in {"start", "assigned"}
  /\ \E w \in QuotedWords :
       call' = [fn |-> "expand", input |-> w, out |-> expand(w, rsvars, TRUE)]
  /\ textpc' = "expanded"
  /\ UNCHANGED <<rsvars, stmt, frames, parseVars>>

NextQuoted ==
  \/ ExecuteAssignment
  \/ ExpandQuoted

SpecQuoted == InitExpand /\ [][NextQuoted]_vars

\* The offsets of the double quotes of word w.
Quotes(w) == {k \in 0..(Len(w) - 1) : At(w, k) = "\""}

\* The least and the greatest element of a set of numbers.
Least(S) == CHOOSE x \in S : \A y \in S : x <= y

Greatest(S) == CHOOSE x \in S : \A y \in S : y <= x

\* w is text, a double-quoted span and text, the text being plain letters.
OneSpan(w) ==
  /\ Cardinality(Quotes(w)) = 2
  /\ \A k \in 0..(Len(w) - 1) :
       k < Least(Quotes(w)) \/ k > Greatest(Quotes(w)) => At(w, k) = "a"

\* For such a word: the text before the span, the expansion of the inside
\* of the span joined with single spaces, and the text after the span.
Spliced(w, vs) ==
  LET open == Least(Quotes(w))
      close == Greatest(Quotes(w))
  IN Slice(w, 0, open)
       \o Join(expand(Slice(w, open + 1, close), vs, TRUE), <<" ">>)
       \o Slice(w, close + 1, Len(w))

\* C40: the expansion of a word with a double-quoted span is one token: the
\* text before the span, the expansion of the span's inside joined with
\* single spaces, and the text after the closing quote, of which no
\* character is dropped.
C40_QuotedSpan ==
  call.fn = "expand" /\ OneSpan(call.input) =>
    call.out = lastPart(<<>>, Spliced(call.input, rsvars))

====
